---- MODULE Spec2Model ----
(***************************************************************************)
(* A model of the conversational agent of app/agent/graph.py: the identity *)
(* resolution and persistence of GraphWrapper.invoke, the agent/tools loop *)
(* built by GraphWrapper._build_graph and run by the LangGraph runtime     *)
(* with a MemorySaver checkpointer, and the session store of               *)
(* app/services/mongo.py.                                                  *)
(*                                                                         *)
(* A Python str on which the code works character by character (message   *)
(* contents, client ids) is a sequence of one-character strings; <<>> is   *)
(* the empty str.  An Optional[str] is <<>> (None) or <<s>>.  Names that   *)
(* the code only compares (session ids, tool names, call ids) are strings. *)
(***************************************************************************)
EXTENDS Integers, Sequences, FiniteSets, TLC

\* ------------------------------------------------------------------ bounds

\* The calls of POST /agent/chat; each is one turn.
MaxTurns == 2

\* The values merged into one client_id channel.
MaxMerges == 3

\* The entries of the longest history a caller sends.
MaxHistory == 12

\* The number of supersteps the LangGraph runtime runs before it raises
\* GraphRecursionError.  graph.invoke is called without a recursion_limit, so
\* the runtime's default (25) applies; the model uses a small one.
RecursionLimit == 3

\* The calls of create_client that run side by side.
MaxCreators == 3

\* The calls of the tools made one after the other on one data set.
MaxToolRuns == 2

\* The documents of the client whose data vary.
MaxDocs == 3

\* The largest limit a query is called with.
MaxLimit == 3

\* ------------------------------------------------------- program constants

\* messages[-10:]
HistoryWindow == 10

\* {4,} in the pattern of _extract_client_id
MinIdLen == 4

\* limit: int = 50 of get_messages
MessagesLimit == 50

\* parts.port or 11434 in _resolve_base_url
DefaultPort == 11434

\* ----------------------------------------------------------------- KPI store

VARIABLE
    kpis            \* db.kpis: its documents

\* --------------------------------------------------------------------- text

LowerCase ==
    {"a", "b", "c", "d", "e", "f", "g", "h", "i", "j", "k", "l", "m",
     "n", "o", "p", "q", "r", "s", "t", "u", "v", "w", "x", "y", "z"}

UpperCase ==
    {"A", "B", "C", "D", "E", "F", "G", "H", "I", "J", "K", "L", "M",
     "N", "O", "P", "Q", "R", "S", "T", "U", "V", "W", "X", "Y", "Z"}

Digits == {"0", "1", "2", "3", "4", "5", "6", "7", "8", "9"}

\* \w of Python's re for ASCII text: what \b tells apart from the rest.
WordChars == LowerCase \cup UpperCase \cup Digits \cup {"_"}

\* The character class [A-Za-z0-9_\-] of the pattern.
IdChars == WordChars \cup {"-"}

\* What str.strip() removes.
Whitespace == {" ", "\t", "\n", "\r"}

SetMin(S) == CHOOSE x \in S : \A y \in S : x <= y

SetMax(S) == CHOOSE x \in S : \A y \in S : x >= y

\* s.strip()
Strip(s) ==
    LET keep == {i \in 1..Len(s) : s[i] \notin Whitespace}
    IN  IF keep = {} THEN <<>> ELSE SubSeq(s, SetMin(keep), SetMax(keep))

\* " ".join(texts)
RECURSIVE Join(_)
Join(texts) ==
    IF texts = <<>> THEN <<>>
    ELSE IF Len(texts) = 1 THEN texts[1]
    ELSE texts[1] \o <<" ">> \o Join(Tail(texts))

\* x or "" for an Optional[str]
OrEmpty(opt) == IF opt = <<>> THEN <<>> ELSE opt[1]

\* \b between text[p] and text[p+1] (p = 0 is the start, p = Len the end):
\* exactly one side is a word character.
WordBoundary(text, p) ==
    LET left  == p >= 1 /\ text[p] \in WordChars
        right == p < Len(text) /\ text[p + 1] \in WordChars
    IN  left # right

\* The longest run of pattern characters starting at text[i].
RunLen(text, i) ==
    SetMax({n \in 0..(Len(text) - i + 1) :
               \A j \in i..(i + n - 1) : text[j] \in IdChars})

\* The lengths with which \b([A-Za-z0-9_\-]{4,})\b matches at text[i].
MatchLens(text, i) ==
    IF ~WordBoundary(text, i - 1) THEN {}
    ELSE {n \in MinIdLen..RunLen(text, i) : WordBoundary(text, i + n - 1)}

\* GraphWrapper._extract_client_id: re.search takes the leftmost start and,
\* the quantifier being greedy, the longest length that lets the closing \b
\* match.  None is <<>>, a match m is <<m>>.
extract_client_id(text) ==
    LET starts == {i \in 1..Len(text) : MatchLens(text, i) # {}}
    IN  IF starts = {} THEN <<>>
        ELSE LET i == SetMin(starts)
                 n == SetMax(MatchLens(text, i))
             IN  <<SubSeq(text, i, i + n - 1)>>

\* prefer_new_nonempty without y.strip().
prefer_new_nonempty_NoStrip(x, y) == IF y # <<>> THEN y ELSE x

\* The reducer of AgentState.client_id.
prefer_new_nonempty(x, y) == IF y # <<>> /\ Strip(y) # <<>> THEN y ELSE x

\* ---------------------------------------------------------------- literals

T_hi == <<"h", "i">>

T_kpi == <<"k", "p", "i">>

T_show == <<"s", "h", "o", "w">>

T_churn == <<"c", "h", "u", "r", "n">>

T_for == <<"f", "o", "r">>

T_please == <<"p", "l", "e", "a", "s", "e">>

T_client1 == <<"c", "l", "i", "e", "n", "t", "1">>

T_client2 == <<"c", "l", "i", "e", "n", "t", "2">>

T_client42 == <<"c", "l", "i", "e", "n", "t", "4", "2">>

T_nobody == <<"n", "o", "b", "o", "d", "y">>

T_okay == <<"o", "k", "a", "y">>

T_done == <<"d", "o", "n", "e">>

SP == <<" ">>

\* "Sorry, I encountered an issue. Could you rephrase?"
Fallback ==
    <<"S", "o", "r", "r", "y", ",", " ", "I", " ", "e", "n", "c", "o", "u",
      "n", "t", "e", "r", "e", "d", " ", "a", "n", " ", "i", "s", "s", "u",
      "e", ".", " ", "C", "o", "u", "l", "d", " ", "y", "o", "u", " ", "r",
      "e", "p", "h", "r", "a", "s", "e", "?">>

\* "hi"
Q_hi == T_hi

\* "kpi client1"
Q_kpi_client1 == T_kpi \o SP \o T_client1

\* "show churn for client42 please"
Q_show_churn ==
    T_show \o SP \o T_churn \o SP \o T_for \o SP \o T_client42 \o SP \o T_please

\* ----------------------------------------------------------------- messages

HumanMessage(c) ==
    [type |-> "human", content |-> c, tool_calls |-> <<>>,
     tool_call_id |-> "", name |-> ""]

AIMessage(c, calls) ==
    [type |-> "ai", content |-> c, tool_calls |-> calls,
     tool_call_id |-> "", name |-> ""]

ToolMessage(c, id, tool) ==
    [type |-> "tool", content |-> c, tool_calls |-> <<>>,
     tool_call_id |-> id, name |-> tool]

\* getattr(message, "tool_calls", None) is truthy
HasToolCalls(m) == m.tool_calls # <<>>

Last(s) == s[Len(s)]

\* Window keeping the first ten, s[:10].
Window_Head(s) ==
    IF Len(s) > HistoryWindow THEN SubSeq(s, 1, HistoryWindow) ELSE s

\* s[-10:]
Window(s) ==
    IF Len(s) > HistoryWindow
    THEN SubSeq(s, Len(s) - HistoryWindow + 1, Len(s))
    ELSE s

\* The loop over history in invoke: entries of type "human" and "ai" become
\* messages, every other entry is dropped.
RECURSIVE RebuildMessages(_)
RebuildMessages(history) ==
    IF history = <<>> THEN <<>>
    ELSE LET m == history[1]
             rest == RebuildMessages(Tail(history))
         IN  IF m.type = "human" THEN <<HumanMessage(m.content)>> \o rest
             ELSE IF m.type = "ai" THEN <<AIMessage(m.content, <<>>)>> \o rest
             ELSE rest

\* [str(m.content) for m in messages]
Contents(msgs) == [i \in 1..Len(msgs) |-> msgs[i].content]

\* The final loop over final_messages in invoke: human and assistant messages
\* as {type, content}; tool messages are skipped.
RECURSIVE UpdatedHistory(_)
UpdatedHistory(msgs) ==
    IF msgs = <<>> THEN <<>>
    ELSE LET m == msgs[1]
             rest == UpdatedHistory(Tail(msgs))
         IN  IF m.type \in {"human", "ai"}
             THEN <<[type |-> m.type, content |-> m.content]>> \o rest
             ELSE rest

\* FinalAnswer reading final_messages[0] instead of final_messages[-1].
FinalAnswer_First(final_messages) ==
    IF final_messages # <<>> /\ ~HasToolCalls(final_messages[1])
    THEN final_messages[1].content
    ELSE Fallback

\* answer = final_messages[-1].content if final_messages and not
\* final_messages[-1].tool_calls else the fallback
FinalAnswer(final_messages) ==
    IF final_messages # <<>> /\ ~HasToolCalls(Last(final_messages))
    THEN Last(final_messages).content
    ELSE Fallback

\* ------------------------------------------------------------ session store

\* The clients the startup seed inserts (seed_dummy_data inserts client1 to
\* client4, each with five days of KPI documents; two of them are enough).
SeedClients == {T_client1, T_client2}

\* The clients that have KPI documents: seed_dummy_data is the only writer of
\* db.kpis, so these are the seeded clients.
KpiClients == {d.client_id : d \in kpis}

\* get_active_client_id finding no record, whatever the store holds.
get_active_client_id_Forget(sess, session_id) == <<>>

\* db.sessions is a function from the session ids that have a record to the
\* record's active_client_id (session_id is a unique index).
get_active_client_id(sess, session_id) ==
    IF session_id \in DOMAIN sess THEN sess[session_id] ELSE <<>>

\* An upsert that replaces the collection by the one record it writes.
UpsertSession_Replace(sess, session_id, client_id) ==
    [k \in {session_id} |-> client_id]

\* update_one(..., upsert=True) on db.sessions
UpsertSession(sess, session_id, client_id) ==
    [k \in DOMAIN sess \cup {session_id} |->
        IF k = session_id THEN client_id ELSE sess[k]]

\* set_active_client_id without the lookup in db.clients.
set_active_client_id_NoLookup(sess, cl, session_id, client_id) ==
    UpsertSession(sess, session_id, client_id)

\* set_active_client_id: nothing is written for an id that db.clients lacks.
\* The value is the sessions collection afterwards.
set_active_client_id(sess, cl, session_id, client_id) ==
    IF client_id \notin cl THEN sess
    ELSE UpsertSession(sess, session_id, client_id)

\* What set_active_client_id returns: False for an id that db.clients lacks.
SetActiveReturns(cl, client_id) == client_id \in cl

\* add_message replacing what the collection holds by the new document.
add_message_Overwrite(log, session_id, role, content, now) ==
    <<[session_id |-> session_id, role |-> role, content |-> content,
       created_at |-> now]>>

\* add_message filing every message under the default session.
add_message_SharedLog(log, session_id, role, content, now) ==
    Append(log, [session_id |-> "default_session", role |-> role,
                 content |-> content, created_at |-> now])

\* add_message inserting the document twice.
add_message_Twice(log, session_id, role, content, now) ==
    log \o << [session_id |-> session_id, role |-> role, content |-> content,
               created_at |-> now],
              [session_id |-> session_id, role |-> role, content |-> content,
               created_at |-> now] >>

\* add_message: insert_one into db.messages; now is datetime.utcnow() as the
\* store keeps it (milliseconds).
add_message(log, session_id, role, content, now) ==
    Append(log, [session_id |-> session_id, role |-> role, content |-> content,
                 created_at |-> now])

\* The documents of db.messages that find({"session_id": session_id}) matches,
\* in the order of their insertion.
SessionDocs(log, session_id) ==
    LET Of(d) == d.session_id = session_id
    IN  SelectSeq(log, Of)

\* The orders in which sort("created_at", ASCENDING) may return the documents:
\* by ascending created_at; the store promises no order among documents with
\* the same created_at.
SortedOrders(docs) ==
    {p \in [1..Len(docs) -> 1..Len(docs)] :
        /\ \A i, j \in 1..Len(docs) : i # j => p[i] # p[j]
        /\ \A i, j \in 1..Len(docs) :
              i < j => docs[p[i]].created_at <= docs[p[j]].created_at}

\* get_messages: the lists it may return, each the first `limit` documents of
\* one sorted order as {type, content}.
get_messages(log, session_id) ==
    LET docs == SessionDocs(log, session_id)
        n == IF Len(docs) > MessagesLimit THEN MessagesLimit ELSE Len(docs)
    IN  {[i \in 1..n |-> [type |-> docs[p[i]].role, content |-> docs[p[i]].content]] :
            p \in SortedOrders(docs)}

\* create_client's result: False without client_id or for a known one.
CreateClientOk(cl, payload) ==
    payload # <<>> /\ payload[1] # <<>> /\ payload[1] \notin cl

\* ---------------------------------------------------------------- KPI data

\* A document of db.kpis.  date is the day's number (the stored text is the
\* ISO date, whose order is the order of the days), churn_rate is in
\* ten-thousandths (the seed rounds it to four decimals), mrr and
\* active_users are whole numbers.
KpiDoc(cid, date, mrr, churn, users) ==
    [client_id |-> cid, date |-> date, mrr |-> mrr, churn_rate |-> churn,
     active_users |-> users]

\* seed_dummy_data: five days of documents for every seeded client, the last
\* of them today (day 0).
SeedKpis ==
    {KpiDoc(cid, i - 4,
            (IF cid = T_client1 THEN 12000 ELSE 14500) + i * 120 - (i % 2) * 60,
            300 + (i - 2) * 20,
            (IF cid = T_client1 THEN 800 ELSE 900) + i * 15 - (i % 3) * 10) :
        cid \in SeedClients, i \in 0..4}

\* The documents of the set docs by ascending date.
RECURSIVE SortByDate(_)
SortByDate(docs) ==
    IF docs = {} THEN <<>>
    ELSE LET first == CHOOSE d \in docs : \A e \in docs : d.date <= e.date
         IN  <<first>> \o SortByDate(docs \ {first})

\* _fetch_kpis: the client's documents of the `days` latest dates, oldest
\* first.  (client_id, date) names one document: the seed writes one per
\* client and day.
fetch_kpis(coll, client_id, days) ==
    LET mine == {d \in coll : d.client_id = client_id}
        recent == {d \in mine :
                      Cardinality({e \in mine : e.date > d.date}) < days}
    IN  SortByDate(recent)

\* _status_mrr; prev is <<>> for None.  change < -0.10 and change < -0.03 on
\* the quotient (curr - prev) / prev, in exact arithmetic.
status_mrr(prev, curr) ==
    IF prev = <<>> \/ prev[1] <= 0 THEN "green"
    ELSE IF (curr - prev[1]) * 10 < 0 - prev[1] THEN "red"
    ELSE IF (curr - prev[1]) * 100 < 0 - 3 * prev[1] THEN "yellow"
    ELSE "green"

\* _status_churn: churn > 0.05, churn > 0.03
status_churn(churn) ==
    IF churn > 500 THEN "red" ELSE IF churn > 300 THEN "yellow" ELSE "green"

\* _status_active_users
status_active_users(users) ==
    IF users < 650 THEN "red" ELSE IF users < 750 THEN "yellow" ELSE "green"

\* The quotient a / b rounded to the nearest whole number, b > 0.
RoundDiv(a, b) == (2 * a + b) \div (2 * b)

\* _pct_change followed by round(..., 2): the change in hundredths of a
\* percent.
pct_change(first, last) ==
    IF first # 0
    THEN IF first > 0 THEN RoundDiv((last - first) * 10000, first)
         ELSE RoundDiv((first - last) * 10000, 0 - first)
    ELSE 0

RECURSIVE SumSeq(_)
SumSeq(s) == IF s = <<>> THEN 0 ELSE s[1] + SumSeq(Tail(s))

\* The sign of _linear_slope(values): the slope is num / denom with denom > 0,
\* and num = sum (x - mean_x) * (y - mean_y) has the sign of
\* sum (n*x - sum xs) * (n*y - sum ys).
slope_sign(values) ==
    LET n == Len(values)
        sx == SumSeq([i \in 1..n |-> i - 1])
        sy == SumSeq(values)
        num == SumSeq([i \in 1..n |-> (n * (i - 1) - sx) * (n * values[i] - sy)])
    IN  IF n < 2 THEN 0 ELSE IF num > 0 THEN 1 ELSE IF num < 0 THEN -1 ELSE 0

\* MonitoringItem(...).model_dump(): updated_at is filled by its default
\* factory, datetime.now, when the item is made.
MonitoringItem(date, kpi_name, value, status, now) ==
    [date |-> date, kpi_name |-> kpi_name, value |-> value, status |-> status,
     updated_at |-> now]

\* The three items get_client_monitoring_data makes of the i-th document.
ItemsOf(docs, i, now) ==
    LET d == docs[i]
        prev_mrr == IF i = 1 THEN <<>> ELSE <<docs[i - 1].mrr>>
    IN  <<MonitoringItem(d.date, "monthly_recurring_revenue", d.mrr,
                         status_mrr(prev_mrr, d.mrr), now),
          MonitoringItem(d.date, "churn_rate", d.churn_rate,
                         status_churn(d.churn_rate), now),
          MonitoringItem(d.date, "active_users", d.active_users,
                         status_active_users(d.active_users), now)>>

RECURSIVE ItemsUpTo(_, _, _)
ItemsUpTo(docs, n, now) ==
    IF n = 0 THEN <<>> ELSE ItemsUpTo(docs, n - 1, now) \o ItemsOf(docs, n, now)

\* get_client_monitoring_data: now is the clock the items read.
get_client_monitoring_data(coll, client_id, now) ==
    LET docs == fetch_kpis(coll, client_id, 5)
    IN  ItemsUpTo(docs, Len(docs), now)

\* The empty mapping {}.
EmptyMapping == <<>>

\* get_monitoring_summary; key_insight is the list of the sentences joined.
get_monitoring_summary(coll, client_id) ==
    LET docs == fetch_kpis(coll, client_id, 5)
        n == Len(docs)
        latest == docs[n]
        mrr_status == IF n >= 2 THEN status_mrr(<<docs[n - 1].mrr>>, latest.mrr)
                      ELSE "green"
        churn_status == status_churn(latest.churn_rate)
        users_status == status_active_users(latest.active_users)
        red == (IF mrr_status = "red" THEN 1 ELSE 0)
               + (IF churn_status = "red" THEN 1 ELSE 0)
               + (IF users_status = "red" THEN 1 ELSE 0)
        insights ==
            (IF churn_status # "green"
             THEN <<"Churn is elevated and needs attention">> ELSE <<>>)
            \o (IF mrr_status # "green" THEN <<"MRR dropped recently">> ELSE <<>>)
            \o (IF users_status # "green"
                THEN <<"Active users are below target">> ELSE <<>>)
    IN  IF n = 0 THEN EmptyMapping
        ELSE [total_kpis_tracked |-> 3,
              kpis_in_red_zone |-> red,
              key_insight |->
                  IF insights # <<>> THEN insights
                  ELSE <<"Overall health looks stable across recent days.">>,
              client_id |-> client_id]

\* detect_anomalies; anomaly_score is in hundredths.
detect_anomalies(coll, client_id) ==
    LET docs == fetch_kpis(coll, client_id, 5)
        n == Len(docs)
        churn_hits == {i \in 1..n : docs[i].churn_rate > 500}
        mrr_hits == {i \in 2..n :
                        /\ docs[i - 1].mrr > 0
                        /\ (docs[i].mrr - docs[i - 1].mrr) * 10 < 0 - docs[i - 1].mrr}
        users_hits == {i \in 1..n : docs[i].active_users < 650}
        anomalies_found ==
            Cardinality(churn_hits) + Cardinality(mrr_hits) + Cardinality(users_hits)
        critical_kpis ==
            (IF users_hits # {} THEN <<"active_users">> ELSE <<>>)
            \o (IF churn_hits # {} THEN <<"churn_rate">> ELSE <<>>)
            \o (IF mrr_hits # {} THEN <<"monthly_recurring_revenue">> ELSE <<>>)
        recommendations ==
            (IF churn_hits # {}
             THEN <<"Investigate churn cohorts and run win-back campaigns.">>
             ELSE <<>>)
            \o (IF mrr_hits # {}
                THEN <<"Analyze revenue segments; review pricing/discount changes.">>
                ELSE <<>>)
            \o (IF users_hits # {}
                THEN <<"Re-engage inactive users; launch in-app prompts.">>
                ELSE <<>>)
    IN  IF n = 0 THEN EmptyMapping
        ELSE [anomalies_found |-> anomalies_found,
              critical_kpis |-> critical_kpis,
              anomaly_score |->
                  IF anomalies_found >= 10 THEN 100 ELSE anomalies_found * 10,
              recommendations |->
                  IF recommendations # <<>> THEN recommendations
                  ELSE <<"No critical anomalies detected; continue to monitor KPIs.">>]

\* aliases in get_trend_analysis
TrendAliases ==
    [k \in {"monthly_recurring_revenue", "churn_rate", "active_users", "mrr"} |->
        IF k = "monthly_recurring_revenue" THEN "mrr" ELSE k]

\* d.get(metric)
MetricOf(d, metric) ==
    IF metric = "mrr" THEN d.mrr
    ELSE IF metric = "churn_rate" THEN d.churn_rate
    ELSE d.active_users

\* get_trend_analysis reading the documents before it looks at the KPI name.
get_trend_analysis_FetchFirst(coll, client_id, kpi_name) ==
    IF fetch_kpis(coll, client_id, 5) = <<>>
    THEN [error |-> <<"No KPI data found for client '", client_id, "'.">>]
    ELSE IF kpi_name \notin DOMAIN TrendAliases
    THEN [error |-> <<"Trend analysis for KPI '", kpi_name, "' is not available.">>]
    ELSE [error |-> <<"Not enough data points to calculate a trend.">>]

\* get_trend_analysis: the alias check comes before the read of the
\* documents; change_percentage is in hundredths of a percent.
get_trend_analysis(coll, client_id, kpi_name) ==
    IF kpi_name \notin DOMAIN TrendAliases
    THEN [error |-> <<"Trend analysis for KPI '", kpi_name, "' is not available.">>]
    ELSE
    LET metric == TrendAliases[kpi_name]
        docs == fetch_kpis(coll, client_id, 5)
        ys == [i \in 1..Len(docs) |-> MetricOf(docs[i], metric)]
        slope == slope_sign(ys)
    IN  IF docs = <<>>
        THEN [error |-> <<"No KPI data found for client '", client_id, "'.">>]
        ELSE IF Len(ys) < 2
        THEN [error |-> <<"Not enough data points to calculate a trend.">>]
        ELSE [kpi_name |-> kpi_name,
              trend |->
                  IF metric = "mrr"
                  THEN (IF slope > 0 THEN "positive_growth"
                        ELSE IF slope < 0 THEN "negative" ELSE "flat")
                  ELSE IF metric = "churn_rate"
                  THEN (IF slope > 0 THEN "negative"
                        ELSE IF slope < 0 THEN "improving" ELSE "flat")
                  ELSE (IF slope > 0 THEN "up"
                        ELSE IF slope < 0 THEN "down" ELSE "flat"),
              change_percentage |-> pct_change(ys[1], ys[Len(ys)]),
              forecast |->
                  IF metric = "mrr"
                  THEN (IF slope > 0
                        THEN "MRR is projected to grow if current momentum continues."
                        ELSE IF slope < 0 THEN "MRR may decline without intervention."
                        ELSE "MRR is stable; expect similar performance near-term.")
                  ELSE IF metric = "churn_rate"
                  THEN (IF slope > 0
                        THEN "Churn is accelerating and may impact revenue targets."
                        ELSE IF slope < 0
                        THEN "Churn is improving; maintain retention efforts."
                        ELSE "Churn is steady; monitor for shifts.")
                  ELSE (IF slope > 0 THEN "Metric trending up."
                        ELSE IF slope < 0 THEN "Metric trending down."
                        ELSE "Metric appears stable.")]

\* -------------------------------------------------------------------- tools

ToolNames ==
    {"get_saas_kpi_summary", "get_detailed_kpi_data",
     "detect_business_anomalies", "get_kpi_trend_analysis"}

\* The keys of aliases in DummyAnomalyService.get_trend_analysis
TrendKpis == {"monthly_recurring_revenue", "churn_rate", "active_users", "mrr"}

\* args_schema of the tool: client_id is required, and kpi_name too for
\* get_kpi_trend_analysis.  An argument is <<>> when the call lacks it.
ArgsValid(call) ==
    /\ call.args.client_id # <<>>
    /\ call.name = "get_kpi_trend_analysis" => call.args.kpi_name # <<>>

\* What the tool returns, as a text: the kind of payload, then the client id.
\* Every tool reads the client's KPI documents through _fetch_kpis.
ToolResult(call) ==
    LET cid == call.args.client_id[1]
        has == cid \in KpiClients
    IN  CASE call.name = "get_saas_kpi_summary" ->
               IF has THEN <<"summary">> \o cid ELSE <<"{}">>
          [] call.name = "get_detailed_kpi_data" ->
               IF has THEN <<"data">> \o cid ELSE <<"data", "[]">>
          [] call.name = "detect_business_anomalies" ->
               IF has THEN <<"anomalies">> \o cid ELSE <<"{}">>
          [] call.name = "get_kpi_trend_analysis" ->
               IF call.args.kpi_name[1] \notin TrendKpis
               THEN <<"error", "not available">>
               ELSE IF ~has THEN <<"error", "no data">> \o cid
               ELSE <<"trend", call.args.kpi_name[1]>> \o cid

\* RunToolCall passing over a call it cannot run, with an empty result.
RunToolCall_SilentNoOp(call) ==
    IF call.name \notin ToolNames \/ ~ArgsValid(call) THEN <<>>
    ELSE ToolResult(call)

\* One call as ToolNode runs it: an unknown name or arguments the schema
\* rejects give an error text instead of a result (handle_tool_errors).
RunToolCall(call) ==
    IF call.name \notin ToolNames THEN <<"error", "not a valid tool">>
    ELSE IF ~ArgsValid(call) THEN <<"error", "validation">>
    ELSE ToolResult(call)

\* db.kpis.aggregate(pipeline) of _fetch_kpis deleting what it matched.
KpisAfterFetch_Consume(coll, client_id) ==
    {d \in coll : d.client_id # client_id}

\* db.kpis after db.kpis.aggregate(pipeline) of _fetch_kpis: the stages are
\* $match, $sort, $limit and $sort, none of which writes.
KpisAfterFetch(coll, client_id) == coll

\* What a registered tool returns for validated arguments; now is the clock.
ToolValue(coll, name, args, now) ==
    CASE name = "get_saas_kpi_summary" ->
           get_monitoring_summary(coll, args.client_id)
      [] name = "get_detailed_kpi_data" ->
           [data |-> get_client_monitoring_data(coll, args.client_id, now)]
      [] name = "detect_business_anomalies" ->
           detect_anomalies(coll, args.client_id)
      [] name = "get_kpi_trend_analysis" ->
           get_trend_analysis(coll, args.client_id, args.kpi_name)

\* db.kpis after the tool ran: every tool reads through _fetch_kpis, except
\* get_kpi_trend_analysis for a KPI it has no alias for, which reads nothing.
StoreAfterTool(coll, name, args) ==
    IF name = "get_kpi_trend_analysis" /\ args.kpi_name \notin DOMAIN TrendAliases
    THEN coll
    ELSE KpisAfterFetch(coll, args.client_id)

\* db.kpis after ToolNode handled the call: a call it rejects runs no tool.
StoreAfterCall(coll, call) ==
    IF call.name \in ToolNames /\ ArgsValid(call)
    THEN StoreAfterTool(coll, call.name,
                        [client_id |-> call.args.client_id[1],
                         kpi_name |-> IF call.args.kpi_name = <<>> THEN ""
                                      ELSE call.args.kpi_name[1]])
    ELSE coll

\* The text ToolNode puts in the tool message of a call whose tool raised,
\* when its error handler takes the exception.
ToolFailure == <<"error", "tool raised">>

\* The tool of the call runs: its name is registered and its arguments pass
\* the schema.  Only then can its execution (the read of db.kpis) fail.
ToolRuns(call) == call.name \in ToolNames /\ ArgsValid(call)

\* The content of the tool message of one call: failed tells whether the
\* tool raised.
ToolOutput(call, failed) == IF failed THEN ToolFailure ELSE RunToolCall(call)

\* ToolNodeOutputs collecting the results as the threads complete.
ToolNodeOutputs_AsCompleted(calls, completion, failed) ==
    [j \in 1..Len(calls) |->
        ToolMessage(ToolOutput(calls[completion[j]], completion[j] \in failed),
                    calls[completion[j]].id, calls[completion[j]].name)]

\* ToolNode's result for the calls of the last assistant message: one
\* ToolMessage per call, in the order of the calls, whatever the order in
\* which the executor's threads completed them.
ToolNodeOutputs(calls, completion, failed) ==
    [j \in 1..Len(calls) |->
        ToolMessage(ToolOutput(calls[j], j \in failed), calls[j].id, calls[j].name)]

\* ---------------------------------------------------------- the graph

\* router looking for tool calls in any message instead of the last one.
router_AnyMessage(state) ==
    IF \E i \in 1..Len(state.messages) : HasToolCalls(state.messages[i])
    THEN {"tools"} ELSE {}

\* router ending the loop on a message with tool calls and running the tools
\* on a message without.
router_EndOnCalls(state) ==
    IF HasToolCalls(Last(state.messages)) THEN {} ELSE {"tools"}

\* router and the conditional edge of "agent": {call_tools: tools, end: END}.
\* The value is the set of nodes to run next; END is no node.
router(state) ==
    IF HasToolCalls(Last(state.messages)) THEN {"tools"} ELSE {}

\* graph.add_edge("tools", "agent")
ToolsEdge == {"agent"}

\* graph.set_entry_point("agent")
EntryPoint == {"agent"}

\* The channels of a thread that has no checkpoint yet.
EmptyState == [messages |-> <<>>, client_id |-> <<>>]

\* The input of graph.invoke merged into the thread's checkpointed state by
\* the reducers of AgentState: operator.add and prefer_new_nonempty.
MergeInput(saved, input) ==
    [messages  |-> saved.messages \o input.messages,
     client_id |-> prefer_new_nonempty(saved.client_id, input.client_id)]

\* agent_node's update {"messages": [response]} merged into the state.
SystemMessage(c) ==
    [type |-> "system", content |-> c, tool_calls |-> <<>>,
     tool_call_id |-> "", name |-> ""]

\* system_prompt of _build_graph
SystemPrompt == <<"You are a specialized SaaS business intelligence assistant.">>

\* f"Active client_id for this session: {state['client_id']}"
ActiveNote(client_id) == <<"Active client_id for this session: ">> \o client_id

\* agent_node adding the note whatever the state's client_id is.
BackendRequest_NoteAlways(st) ==
    <<SystemMessage(SystemPrompt), SystemMessage(ActiveNote(st.client_id))>>
    \o st.messages

\* messages_with_system_prompt of agent_node: what it passes to
\* llm_with_tools.invoke.
BackendRequest(st) ==
    <<SystemMessage(SystemPrompt)>>
    \o (IF st.client_id # <<>>
        THEN <<SystemMessage(ActiveNote(st.client_id))>> ELSE <<>>)
    \o st.messages

\* The update replacing the messages instead of being appended to them.
AgentUpdate_ReplaceMessages(state, response) ==
    [state EXCEPT !.messages = <<response>>]

AgentUpdate(state, response) ==
    [state EXCEPT !.messages = state.messages \o <<response>>]

\* ------------------------------------------------------------------ invoke

\* session_key = session_id if session_id is not None else "default_session"
SessionKey_NoneOnly(session_id) ==
    IF session_id = <<>> THEN "default_session" ELSE session_id[1]

\* session_key = session_id or "default_session"
SessionKey(session_id) ==
    IF session_id = <<>> \/ session_id[1] = "" THEN "default_session"
    ELSE session_id[1]

\* Lines 163-170: the messages of the turn.
BuildMessages(history, query) ==
    Window(RebuildMessages(history) \o <<HumanMessage(query)>>)

\* ResolveClientId without .strip().
ResolveClientId_NoStrip(explicit, stored, text) ==
    LET e == OrEmpty(explicit)
        x == extract_client_id(text)
    IN  IF e # <<>> THEN [id |-> e, source |-> "explicit"]
        ELSE IF stored # <<>> THEN [id |-> stored, source |-> "session"]
        ELSE IF OrEmpty(x) # <<>> THEN [id |-> x[1], source |-> "text"]
        ELSE [id |-> <<>>, source |-> "none"]

\* ResolveClientId with the text heuristic before the session store.
ResolveClientId_TextFirst(explicit, stored, text) ==
    LET e == Strip(OrEmpty(explicit))
        x == extract_client_id(text)
    IN  IF e # <<>> THEN [id |-> e, source |-> "explicit"]
        ELSE IF OrEmpty(x) # <<>> THEN [id |-> x[1], source |-> "text"]
        ELSE IF stored # <<>> THEN [id |-> stored, source |-> "session"]
        ELSE [id |-> <<>>, source |-> "none"]

\* effective_client_id: (client_id or "").strip() or the stored id or the
\* extracted token or "".  `or` evaluates an operand only when those before
\* it are empty; source names the operand that gave the value, "none" when
\* every operand was empty.
ResolveClientId(explicit, stored, text) ==
    LET e == Strip(OrEmpty(explicit))
        x == extract_client_id(text)
    IN  IF e # <<>> THEN [id |-> e, source |-> "explicit"]
        ELSE IF stored # <<>> THEN [id |-> stored, source |-> "session"]
        ELSE IF OrEmpty(x) # <<>> THEN [id |-> x[1], source |-> "text"]
        ELSE [id |-> <<>>, source |-> "none"]

\* PersistActive without the guard, upserting the session record itself.
PersistActive_Unguarded(sess, cl, session_key, id) ==
    UpsertSession(sess, session_key, id)

\* if effective_client_id: set_active_client_id(session_key, id)
PersistActive(sess, cl, session_key, id) ==
    IF id # <<>> THEN set_active_client_id(sess, cl, session_key, id)
    ELSE sess

\* ------------------------------------------------------------------ inputs

Turns == 1..MaxTurns

\* The history a caller sends: an earlier exchange, with an entry of a type
\* that invoke drops.
H1 ==
    <<[type |-> "human", content |-> Q_kpi_client1],
      [type |-> "system", content |-> T_nobody],
      [type |-> "ai", content |-> T_okay]>>

Rq(q, h, c, sid) ==
    [query |-> q, history |-> h, client_id |-> c, session_id |-> sid]

\* The requests POST /agent/chat receives.  client_id is None (<<>>), "",
\* " ", " client2 " or "nobody"; session_id is None, "" or "s1"; the text of
\* the turn holds no token of four characters ("hi"), a registered client's
\* id after a shorter word ("kpi client1"), or an id after longer words
\* ("show churn for client42 please").
Requests ==
    {Rq(Q_hi, <<>>, <<>>, <<>>),
     Rq(Q_kpi_client1, <<>>, <<>>, <<"s1">>),
     Rq(Q_show_churn, <<>>, <<>>, <<"s1">>),
     Rq(Q_hi, H1, <<SP \o T_client2 \o SP>>, <<"s1">>),
     Rq(Q_show_churn, H1, <<SP>>, <<"s1">>),
     Rq(Q_kpi_client1, <<>>, <<T_nobody>>, <<>>),
     Rq(Q_hi, <<>>, << <<>> >>, <<"">>)}

\* The contents of the entries of a long history, one letter each.
Letters == <<"a", "b", "c", "d", "e", "f", "g", "h", "i", "j", "k", "l", "m">>

\* A history of n entries, human and ai in turn.
HistoryOf(n) ==
    [i \in 1..n |->
        [type |-> IF i % 2 = 1 THEN "human" ELSE "ai", content |-> <<Letters[i]>>]]

\* The same history with a tool entry in its third place.
HistoryWithTool(n) ==
    [i \in 1..n |->
        IF i = 3 THEN [type |-> "tool", content |-> <<Letters[i]>>]
        ELSE HistoryOf(n)[i]]

\* Requests with histories of every length up to MaxHistory.
WindowRequests ==
    {Rq(Q_hi, HistoryOf(n), <<>>, <<"s1">>) : n \in 0..MaxHistory}
        \cup {Rq(Q_hi, HistoryWithTool(n), <<>>, <<"s1">>) : n \in 3..MaxHistory}

NoRequest ==
    [query |-> <<>>, history |-> <<>>, client_id |-> <<>>, session_id |-> <<>>]

\* The payloads POST /agent/clients receives: without client_id, a new client.
ClientPayloads == {<<>>, <<T_nobody>>}

\* The callers of POST /agent/clients that run side by side.
Creators == 1..MaxCreators

\* What they post: no client_id, an empty one, a client there is, and two
\* new clients.
CreatePayloads ==
    ClientPayloads \cup {<< <<>> >>, <<T_client1>>, <<T_client42>>}

\* A call of create_client: where it is ("idle", "insert" between find_one and
\* insert_one, "returned", "raised"), its payload, what it returned, and what
\* the endpoint answered (0 before it has).
CreateCall(at, payload, result, status) ==
    [pc |-> at, payload |-> payload, result |-> result, status |-> status]

NoCreate == CreateCall("idle", <<>>, FALSE, 0)

\* One call of get_kpi_trend_analysis.
CallsOne ==
    <<[id |-> "call_a", name |-> "get_kpi_trend_analysis",
       args |-> [client_id |-> <<T_client1>>, kpi_name |-> <<"churn_rate">>]]>>

\* Two calls in one assistant message, the second for a client without data.
CallsTwo ==
    <<[id |-> "call_b", name |-> "get_saas_kpi_summary",
       args |-> [client_id |-> <<T_client1>>, kpi_name |-> <<>>]],
      [id |-> "call_a", name |-> "get_detailed_kpi_data",
       args |-> [client_id |-> <<T_nobody>>, kpi_name |-> <<>>]]>>

\* Two calls that no tool runs: a name that is not registered, and
\* get_kpi_trend_analysis without kpi_name.
CallsBad ==
    <<[id |-> "call_c", name |-> "get_weather",
       args |-> [client_id |-> <<T_client1>>, kpi_name |-> <<>>]],
      [id |-> "call_d", name |-> "get_kpi_trend_analysis",
       args |-> [client_id |-> <<T_client1>>, kpi_name |-> <<>>]]>>

\* The calls of a tool step during which the data store may be unavailable:
\* the first one.
FailingCalls == {1}

\* The requests of the turns that run side by side: two on the session s1, one
\* with an id in its text and one with an explicit id, and two on the default
\* session.
ConcurrentRequests ==
    {Rq(Q_kpi_client1, <<>>, <<>>, <<"s1">>),
     Rq(Q_hi, <<>>, <<SP \o T_client2 \o SP>>, <<"s1">>),
     Rq(Q_hi, <<>>, <<>>, <<>>),
     Rq(Q_kpi_client1, <<>>, <<T_client2>>, <<>>)}

\* What the backend answers them with.
ConcurrentReplies == {AIMessage(T_done, <<>>), AIMessage(<<>>, CallsOne)}

\* What the inference backend may answer a Decision Step with: a text and no
\* tool calls, or tool calls and no text.
BackendReplies ==
    {AIMessage(T_done, <<>>), AIMessage(<<>>, CallsOne), AIMessage(<<>>, CallsTwo),
     AIMessage(<<>>, CallsBad)}

\* A client_id channel of the runtime on its own: the value it started
\* with, the values merged into it so far, and the value it holds.
MergeFrom(initial) == [initial |-> initial, inputs |-> <<>>, field |-> initial]

\* The values a caller of the reducer may merge: "", " ", " \t", "client1",
\* "client2", " client2 ".
MergeValues ==
    {<<>>, SP, <<" ", "\t">>, T_client1, T_client2, SP \o T_client2 \o SP}

\* The values a document of the client under test may hold: a healthy day, a
\* day with a fall of the revenue, a high churn and few users, and a day without
\* revenue.
DocValues ==
    {[mrr |-> 10000, churn_rate |-> 300, active_users |-> 800],
     [mrr |-> 8000, churn_rate |-> 600, active_users |-> 600],
     [mrr |-> 0, churn_rate |-> 320, active_users |-> 700]}

\* The contents of db.kpis the tools are run on: what the seed wrote, and
\* client1 with no document, one, two or three documents of consecutive days.
KpiDataSets ==
    {SeedKpis}
    \cup UNION {{{KpiDoc(T_client1, i, v[i].mrr, v[i].churn_rate,
                         v[i].active_users) : i \in 1..n} :
                   v \in [1..n -> DocValues]} : n \in 0..MaxDocs}

\* The arguments the tools are called with, as the schema passed them: a
\* seeded client or a client no document names, and a KPI name with an alias
\* or without one.
ToolArgs ==
    [client_id : {T_client1, T_client42},
     kpi_name : {"mrr", "churn_rate", "active_users", "nps"}]

\* The arguments the tool's schema has: kpi_name is "" for the tools that
\* take none.
ArgsOf(name) ==
    IF name = "get_kpi_trend_analysis" THEN ToolArgs
    ELSE {a \in [client_id : {T_client1, T_client42}, kpi_name : {""}] : TRUE}

\* ------------------------------------------------------------ KPI CSV query

\* The letters, for str.lower().
UpperSeq ==
    <<"A", "B", "C", "D", "E", "F", "G", "H", "I", "J", "K", "L", "M",
      "N", "O", "P", "Q", "R", "S", "T", "U", "V", "W", "X", "Y", "Z">>

LowerSeq ==
    <<"a", "b", "c", "d", "e", "f", "g", "h", "i", "j", "k", "l", "m",
      "n", "o", "p", "q", "r", "s", "t", "u", "v", "w", "x", "y", "z">>

\* s.lower()
Lower(s) ==
    [i \in 1..Len(s) |->
        IF s[i] \in UpperCase
        THEN LowerSeq[CHOOSE k \in 1..Len(UpperSeq) : UpperSeq[k] = s[i]]
        ELSE s[i]]

\* s.replace(old, new): the occurrences from the left, not overlapping.
RECURSIVE Replace(_, _, _)
Replace(s, old, new) ==
    IF Len(s) < Len(old) THEN s
    ELSE IF SubSeq(s, 1, Len(old)) = old
    THEN new \o Replace(SubSeq(s, Len(old) + 1, Len(s)), old, new)
    ELSE <<s[1]>> \o Replace(Tail(s), old, new)

\* _normalize_kpi_name; name is <<>> for None.
normalize_kpi_name(name) ==
    Replace(Replace(Replace(Lower(Strip(OrEmpty(name))), <<" ">>, <<"_">>),
                    <<"-">>, <<"_">>),
            <<"p", "e", "r", "f", "o", "m", "a", "n", "c", "e">>, <<"p", "e", "r", "f", "o", "r", "m", "a", "n", "c", "e">>)

\* The value of a digit, and of a text of digits.
DigitVal(c) ==
    CHOOSE v \in 0..9 :
        <<"0", "1", "2", "3", "4", "5", "6", "7", "8", "9">>[v + 1] = c

RECURSIVE Num(_)
Num(s) ==
    IF s = <<>> THEN 0
    ELSE 10 * Num(SubSeq(s, 1, Len(s) - 1)) + DigitVal(s[Len(s)])

\* s.split("-")
RECURSIVE SplitDash(_)
SplitDash(s) ==
    LET dashes == {i \in 1..Len(s) : s[i] = "-"}
    IN  IF dashes = {} THEN <<s>>
        ELSE <<SubSeq(s, 1, SetMin(dashes) - 1)>>
             \o SplitDash(SubSeq(s, SetMin(dashes) + 1, Len(s)))

AllDigits(s) == \A i \in 1..Len(s) : s[i] \in Digits

\* The days of the month.
DaysIn(y, m) ==
    IF m = 2 THEN (IF y % 4 = 0 /\ (y % 100 # 0 \/ y % 400 = 0) THEN 29 ELSE 28)
    ELSE IF m \in {4, 6, 9, 11} THEN 30 ELSE 31

\* _parse_date: datetime.strptime(d, "%Y-%m-%d").date() as <<year, month,
\* day>>, <<>> when strptime raises.  %Y takes four digits, %m and %d take
\* one or two; the day has to exist.
parse_date(d) ==
    LET parts == SplitDash(d)
    IN  IF /\ Len(parts) = 3
           /\ \A i \in 1..3 : parts[i] # <<>> /\ AllDigits(parts[i])
           /\ Len(parts[1]) = 4 /\ Num(parts[1]) >= 1
           /\ Len(parts[2]) <= 2 /\ Num(parts[2]) \in 1..12
           /\ Len(parts[3]) <= 2
           /\ Num(parts[3]) \in 1..DaysIn(Num(parts[1]), Num(parts[2]))
        THEN <<Num(parts[1]), Num(parts[2]), Num(parts[3])>>
        ELSE <<>>

\* a < b for dates as <<year, month, day>>
DateLess(a, b) ==
    \/ a[1] < b[1]
    \/ a[1] = b[1] /\ a[2] < b[2]
    \/ a[1] = b[1] /\ a[2] = b[2] /\ a[3] < b[3]

\* The place of a character in the order of the code points, for the
\* characters of a date: "-" comes before the digits.
CharRank(c) == IF c = "-" THEN 0 ELSE 1 + DigitVal(c)

\* a < b for str: the first difference decides, a proper prefix is smaller.
RECURSIVE StrLess(_, _)
StrLess(a, b) ==
    IF b = <<>> THEN FALSE
    ELSE IF a = <<>> THEN TRUE
    ELSE IF a[1] # b[1] THEN CharRank(a[1]) < CharRank(b[1])
    ELSE StrLess(Tail(a), Tail(b))

\* _months_range: the (year, month) pairs from start's month to end's.
RECURSIVE MonthsFrom(_, _, _)
MonthsFrom(y, m, end) ==
    IF y < end[1] \/ (y = end[1] /\ m <= end[2])
    THEN <<<<y, m>>>> \o (IF m = 12 THEN MonthsFrom(y + 1, 1, end)
                         ELSE MonthsFrom(y, m + 1, end))
    ELSE <<>>

months_range(start, end) == MonthsFrom(start[1], start[2], end)

\* _iter_csv_rows_for_month: the rows of the month's file, none when there is
\* no such file.
iter_csv_rows_for_month(files, ym) ==
    IF ym \in DOMAIN files THEN files[ym] ELSE <<>>

\* The rows of the months in the order the two loops of query_kpi_data visit
\* them.
RECURSIVE RowsOfMonths(_, _)
RowsOfMonths(files, months) ==
    IF months = <<>> THEN <<>>
    ELSE iter_csv_rows_for_month(files, months[1])
         \o RowsOfMonths(files, Tail(months))

\* The tests of the loop body on one row: TRUE when the row is appended.
RowKept(row, start_date, end_date, want_kpi, want_client) ==
    /\ row.date # <<>>
    /\ ~StrLess(row.date, start_date)
    /\ ~StrLess(end_date, row.date)
    /\ want_kpi # <<>> => normalize_kpi_name(<<row.kpi_name>>) = want_kpi
    /\ want_client # <<>> => Strip(row.client_id) = want_client[1]

\* The loop of query_kpi_data over the rows still to visit: it returns as
\* soon as an append makes len(out) >= limit.
RECURSIVE ScanRows(_, _, _, _, _, _, _)
ScanRows(rows, out, start_date, end_date, want_kpi, want_client, limit) ==
    IF rows = <<>>
    THEN [count |-> Len(out), limit_reached |-> FALSE, rows |-> out]
    ELSE IF RowKept(rows[1], start_date, end_date, want_kpi, want_client)
    THEN IF Len(out) + 1 >= limit
         THEN [count |-> Len(out) + 1, limit_reached |-> TRUE,
               rows |-> Append(out, rows[1])]
         ELSE ScanRows(Tail(rows), Append(out, rows[1]), start_date, end_date,
                       want_kpi, want_client, limit)
    ELSE ScanRows(Tail(rows), out, start_date, end_date, want_kpi, want_client,
                  limit)

\* query_kpi_data on the directory dir; kpi_name and client_id are <<>> for
\* None.  want_kpi is <<>> when no KPI filter applies (kpi_name is None or
\* empty, or its normal form is empty).
query_kpi_data(dir, start_date, end_date, kpi_name, client_id, limit) ==
    LET start == parse_date(start_date)
        end == parse_date(end_date)
        want_kpi == IF kpi_name # <<>> /\ kpi_name[1] # <<>>
                    THEN normalize_kpi_name(kpi_name) ELSE <<>>
    IN  IF ~dir.exists
        THEN [error |-> "Data directory not found", rows |-> <<>>]
        ELSE IF start = <<>> \/ end = <<>>
        THEN [error |-> "Invalid date format", rows |-> <<>>]
        ELSE IF DateLess(end, start)
        THEN [error |-> "end_date must be on or after start_date", rows |-> <<>>]
        ELSE ScanRows(RowsOfMonths(dir.files, months_range(start, end)), <<>>,
                      start_date, end_date, want_kpi, client_id, limit)

\* The monthly files query_kpi_data opens: none when it returns an error; else
\* the files there are of the months the outer loop reaches, which are the
\* months before which the scan has not returned at the limit.
files_read(dir, start_date, end_date, kpi_name, client_id, limit) ==
    LET start == parse_date(start_date)
        end == parse_date(end_date)
        want_kpi == IF kpi_name # <<>> /\ kpi_name[1] # <<>>
                    THEN normalize_kpi_name(kpi_name) ELSE <<>>
        months == IF start = <<>> \/ end = <<>> THEN <<>>
                  ELSE months_range(start, end)
        Reached(k) ==
            ~ScanRows(RowsOfMonths(dir.files, SubSeq(months, 1, k - 1)), <<>>,
                      start_date, end_date, want_kpi, client_id,
                      limit).limit_reached
    IN  IF ~dir.exists THEN {}
        ELSE IF start = <<>> \/ end = <<>> THEN {}
        ELSE IF DateLess(end, start) THEN {}
        ELSE {months[k] : k \in {i \in 1..Len(months) :
                                    months[i] \in DOMAIN dir.files /\ Reached(i)}}

\* A row of a monthly CSV file: the columns the query reads.
CsvRow(date, kpi_name, client_id) ==
    [date |-> date, kpi_name |-> kpi_name, client_id |-> client_id]

\* "2025-01-15", "2025-01-31", "2025-02-01"; "2025-1-31", which strptime
\* takes for the 31st of January; "2025-02-30" and "20250115", which it
\* rejects.
D_0115 == <<"2", "0", "2", "5", "-", "0", "1", "-", "1", "5">>
D_0131 == <<"2", "0", "2", "5", "-", "0", "1", "-", "3", "1">>
D_0201 == <<"2", "0", "2", "5", "-", "0", "2", "-", "0", "1">>
D_131 == <<"2", "0", "2", "5", "-", "1", "-", "3", "1">>
D_0230 == <<"2", "0", "2", "5", "-", "0", "2", "-", "3", "0">>
D_plain == <<"2", "0", "2", "5", "0", "1", "1", "5">>

\* "on_time_performance", "on_time_perfomance", "On-Time Performance", "nps"
K_otp == <<"o", "n", "_", "t", "i", "m", "e", "_", "p", "e", "r", "f", "o", "r", "m", "a", "n", "c", "e">>
K_otp_typo == <<"o", "n", "_", "t", "i", "m", "e", "_", "p", "e", "r", "f", "o", "m", "a", "n", "c", "e">>
K_otp_title == <<"O", "n", "-", "T", "i", "m", "e", " ", "P", "e", "r", "f", "o", "r", "m", "a", "n", "c", "e">>
K_nps == <<"n", "p", "s">>

\* The file of January 2025 and the file of February 2025.
FileJanuary ==
    <<CsvRow(D_0115, K_otp, <<"2">>),
      CsvRow(D_0131, K_otp_typo, <<" ", "2">>),
      CsvRow(<<>>, K_otp, <<"2">>),
      CsvRow(D_0131, K_nps, <<"3">>)>>

FileFebruary ==
    <<CsvRow(D_0201, K_otp, <<"2">>),
      CsvRow(D_0201, K_nps, <<"2">>)>>

\* KPI_CSV_DIR: with both files, with the file of January only, and missing.
CsvDirs ==
    {[exists |-> TRUE,
      files |-> (<<2025, 1>> :> FileJanuary) @@ (<<2025, 2>> :> FileFebruary)],
     [exists |-> TRUE, files |-> (<<2025, 1>> :> FileJanuary)],
     [exists |-> FALSE, files |-> <<>>]}

\* The calls of query_kpi_data: kpi_name is None, "" or a name; client_id is
\* None or an id; limit is any integer from -1 to MaxLimit.
KpiQueries ==
    [dir : CsvDirs,
     start_date : {D_0115, D_0131, D_0201, D_131, D_0230, D_plain},
     end_date : {D_0115, D_0131, D_0201, D_131, D_0230, D_plain},
     kpi_name : {<<>>, << <<>> >>, <<K_otp_title>>, <<K_nps>>},
     client_id : {<<>>, << <<"2">> >>, << <<"3">> >>},
     limit : -1..MaxLimit]

\* A query before it ran.
QueryOf(q) == [call |-> q, done |-> FALSE, result |-> <<>>, read |-> {}]

\* The query left aside.
NoQuery ==
    QueryOf([dir |-> [exists |-> FALSE, files |-> <<>>], start_date |-> <<>>,
             end_date |-> <<>>, kpi_name |-> <<>>, client_id |-> <<>>,
             limit |-> 0])

\* ------------------------------------------------------------------ startup

\* A base URL as given: its scheme ("" when the text has none), its host and
\* its port (0 when the text has none).
Url(scheme, host, port) == [scheme |-> scheme, host |-> host, port |-> port]

\* "http://127.0.0.1:11434", the default of main.py line 23 and of _init_.
DefaultBaseUrl == Url("http", "127.0.0.1", DefaultPort)

\* An environment variable that is not set (os.getenv gives None) and one set
\* to the empty string; both are falsy.
Unset == [unset |-> TRUE]
EmptyText == [unset |-> FALSE]

Truthy(v) == v # Unset /\ v # EmptyText

\* a or b
FirstTruthy(a, b) == IF Truthy(a) THEN a ELSE b

\* os.getenv(name, default)
GetEnv(v, default) == IF v = Unset THEN default ELSE v

\* The methods the class GraphWrapper defines (graph.py 37-211): the
\* initializer is spelled _init_.
GraphWrapperMethods ==
    {"_init_", "_resolve_base_url", "_preflight_ollama", "_model_exists",
     "_build_graph", "_extract_client_id", "invoke"}

\* _resolve_base_url: the scheme defaults to http, the wildcard hosts become
\* the loopback address, the port defaults to 11434.
resolve_base_url(candidate) ==
    Url(IF candidate.scheme = "" THEN "http" ELSE candidate.scheme,
        IF candidate.host \in {"", "0.0.0.0", "::", "[::]"}
        THEN "127.0.0.1" ELSE candidate.host,
        IF candidate.port = 0 THEN DefaultPort ELSE candidate.port)

\* _preflight_ollama: GET base_url/api/tags answers 2xx; every failure is
\* False.
preflight_ollama(world, base_url) == base_url \in world.listening

\* _model_exists: POST base_url/api/show answers 2xx; every failure is False.
model_exists(world, base_url, model_name) ==
    base_url \in world.listening /\ model_name \in world.models

\* The body of _init_ (graph.py 46-75) for the arguments of main.py: what it
\* ran, the exception it raised ("" if none) and whether self.llm and
\* self.graph were set.
GraphWrapper_init(env, world, model_name, base_url) ==
    LET url == resolve_base_url(
                   FirstTruthy(base_url,
                     FirstTruthy(env.OLLAMA_BASE_URL,
                       FirstTruthy(env.OLLAMA_HOST, DefaultBaseUrl))))
    IN  IF ~preflight_ollama(world, url)
        THEN [checks |-> <<"reachability">>, error |-> "ImportError",
              llm |-> FALSE, graph |-> FALSE]
        ELSE IF ~model_exists(world, url, model_name)
        THEN [checks |-> <<"reachability", "model">>, error |-> "ImportError",
              llm |-> FALSE, graph |-> FALSE]
        ELSE [checks |-> <<"reachability", "model">>, error |-> "",
              llm |-> TRUE, graph |-> TRUE]

\* GraphWrapper(model_name=..., base_url=...): Python calls the class's
\* __init__ with the arguments; a class that defines none has object's, which
\* takes no argument and raises TypeError.
Construct(env, world, model_name, base_url) ==
    IF "__init__" \in GraphWrapperMethods
    THEN GraphWrapper_init(env, world, model_name, base_url)
    ELSE [checks |-> <<>>, error |-> "TypeError", llm |-> FALSE, graph |-> FALSE]

\* The base URLs the environment may name: "0.0.0.0:11434" (no scheme),
\* "http://localhost", "https://ollama:8080".
EnvUrls ==
    {Url("", "0.0.0.0", DefaultPort), Url("http", "localhost", 0),
     Url("https", "ollama", 8080)}

\* The environments of the process: OLLAMA_BASE_URL and OLLAMA_HOST, each
\* unset, empty or a URL.
Environments ==
    [OLLAMA_BASE_URL : {Unset, EmptyText} \cup EnvUrls,
     OLLAMA_HOST : {Unset} \cup {Url("", "0.0.0.0", DefaultPort),
                                 Url("https", "ollama", 8080)}]

\* The backends: where an Ollama server answers and the models it has.
Worlds ==
    [listening : SUBSET {DefaultBaseUrl, Url("https", "ollama", 8080)},
     models : {{}, {"qwen2.5:7b-instruct"}}]

\* main.py before its import has run.
StartupOf(env, world) ==
    [pc |-> "import", env |-> env, world |-> world, checks |-> <<>>,
     error |-> "", llm |-> FALSE, graph |-> FALSE]

\* The startup left aside: the default environment and no backend.
NoStartup ==
    StartupOf([OLLAMA_BASE_URL |-> Unset, OLLAMA_HOST |-> Unset],
              [listening |-> {}, models |-> {}])

\* -------------------------------------------------------------------- state

VARIABLES
    clients,        \* db.clients: the client_id of every record
    sessions,       \* db.sessions: session_id -> active_client_id
    message_log,    \* db.messages in insertion order
    clock,          \* the time of the last insert into db.messages
    checkpoints,    \* MemorySaver: thread_id -> the state last saved
    pc,             \* where each turn is in chat_with_agent / invoke
    req,            \* the turn's request
    session_key,    \* invoke's session_key
    messages,       \* invoke's messages (the windowed list)
    resolved,       \* effective_client_id and the operand it came from
    stored_seen,    \* the session's stored id when the turn resolved
    persist_ok,     \* what set_active_client_id returned to the turn
    state,          \* the AgentState of the turn's graph run
    loop_base,      \* Len(state.messages) when the run started
    next_nodes,     \* the nodes the runtime runs in the next superstep
    step,           \* supersteps run
    decisions,      \* runs of agent_node in this turn
    tool_steps,     \* runs of tool_node in this turn
    tool_done,      \* the calls of the last tool step, in completion order
    tool_failed,    \* those of them whose tool raised
    sent,           \* what the turn's last Decision Step passed to the backend
    answer,         \* invoke's answer
    updated_history,\* invoke's updated_history_dicts
    error,          \* the exception that ended the turn, "" if none
    merge,          \* a client_id channel on its own: the values merged into it
    startup,        \* the import of main.py: the environment and how far it got
    tool_run,       \* the tools called one by one: arguments, clock and result
    kpi_query,      \* a call of query_kpi_data and what it returned
    client_calls    \* db.clients record by record, and the calls of
                    \* create_client that run side by side


vars ==
    <<clients, kpis, sessions, message_log, clock, checkpoints, pc, req,
      session_key, messages, resolved, stored_seen, persist_ok, state,
      loop_base, next_nodes, step, decisions, tool_steps, tool_done,
      tool_failed, sent, answer, updated_history, error, merge, startup,
      tool_run, kpi_query, client_calls>>

storeVars == <<clients, kpis, sessions, message_log, clock, checkpoints>>

inputVars == <<req, session_key, messages, resolved, stored_seen>>

graphVars ==
    <<state, loop_base, next_nodes, step, decisions, tool_steps, tool_done,
      tool_failed, sent>>

resultVars == <<answer, updated_history, error>>

engineVars == <<storeVars, pc, inputVars, persist_ok, graphVars, resultVars>>

\* What the steps of the engine leave alone.
asideVars == <<merge, startup, tool_run, kpi_query, client_calls>>

\* The state after startup: the seeded clients, no session, no message, no
\* checkpoint, no turn running.
InitEngine ==
    /\ clients = SeedClients
    /\ sessions = <<>>
    /\ message_log = <<>>
    /\ clock = 0
    /\ checkpoints = <<>>
    /\ pc = [t \in Turns |-> "idle"]
    /\ req = [t \in Turns |-> NoRequest]
    /\ session_key = [t \in Turns |-> ""]
    /\ messages = [t \in Turns |-> <<>>]
    /\ resolved = [t \in Turns |-> [id |-> <<>>, source |-> "none"]]
    /\ stored_seen = [t \in Turns |-> <<>>]
    /\ persist_ok = [t \in Turns |-> FALSE]
    /\ state = [t \in Turns |-> EmptyState]
    /\ loop_base = [t \in Turns |-> 0]
    /\ next_nodes = [t \in Turns |-> {}]
    /\ step = [t \in Turns |-> 0]
    /\ decisions = [t \in Turns |-> 0]
    /\ tool_steps = [t \in Turns |-> 0]
    /\ tool_done = [t \in Turns |-> <<>>]
    /\ tool_failed = [t \in Turns |-> {}]
    /\ sent = [t \in Turns |-> <<>>]
    /\ answer = [t \in Turns |-> <<>>]
    /\ updated_history = [t \in Turns |-> <<>>]
    /\ error = [t \in Turns |-> ""]

MergeIdle == merge = MergeFrom(<<>>)

StartupIdle == startup = NoStartup

\* on_startup has seeded db.kpis.
KpisSeeded == kpis = SeedKpis

ToolsIdle == tool_run = <<>>

QueryIdle == kpi_query = NoQuery

\* db.clients after the seed, and no call of create_client under way.
ClientCallsIdle ==
    client_calls = [docs |-> <<T_client1, T_client2>>,
                    calls |-> [c \in Creators |-> NoCreate]]

Init ==
    /\ InitEngine /\ KpisSeeded
    /\ MergeIdle /\ StartupIdle /\ ToolsIdle /\ QueryIdle /\ ClientCallsIdle

\* ------------------------------------------------------------------ actions

\* chat_with_agent calls invoke; invoke lines 160-178: the session key, the
\* windowed messages and the effective client id (one read of db.sessions).
InvokeResolve(t, r) ==
    /\ pc[t] = "idle"
    /\ LET key    == SessionKey(r.session_id)
           msgs   == BuildMessages(r.history, r.query)
           stored == get_active_client_id(sessions, key)
       IN  /\ req' = [req EXCEPT ![t] = r]
           /\ session_key' = [session_key EXCEPT ![t] = key]
           /\ messages' = [messages EXCEPT ![t] = msgs]
           /\ stored_seen' = [stored_seen EXCEPT ![t] = stored]
           /\ resolved' = [resolved EXCEPT ![t] =
                  ResolveClientId(r.client_id, stored, Join(Contents(msgs)))]
    /\ pc' = [pc EXCEPT ![t] = "resolved"]
    /\ UNCHANGED <<storeVars, persist_ok, graphVars, resultVars, asideVars>>

\* invoke lines 180-182
InvokePersist(t) ==
    /\ pc[t] = "resolved"
    /\ sessions' = PersistActive(sessions, clients, session_key[t], resolved[t].id)
    /\ persist_ok' = [persist_ok EXCEPT ![t] =
           resolved[t].id # <<>> /\ SetActiveReturns(clients, resolved[t].id)]
    /\ pc' = [pc EXCEPT ![t] = "persisted"]
    /\ UNCHANGED <<clients, kpis, message_log, clock, checkpoints, inputVars, graphVars,
                   resultVars, asideVars>>

\* invoke lines 184-185; now is the time add_message reads.
InvokeAddHuman(t, now) ==
    /\ pc[t] = "persisted"
    /\ now >= clock
    /\ message_log' = add_message(message_log, session_key[t], "human",
                                  req[t].query, now)
    /\ clock' = now
    /\ pc' = [pc EXCEPT ![t] = "human_added"]
    /\ UNCHANGED <<clients, kpis, sessions, checkpoints, inputVars, persist_ok,
                   graphVars, resultVars, asideVars>>

\* invoke lines 188-191, the start of graph.invoke: the runtime loads the
\* thread's checkpoint, merges the input into it, saves it and schedules the
\* entry point.
GraphStart(t) ==
    /\ pc[t] = "human_added"
    /\ LET key   == session_key[t]
           saved == IF key \in DOMAIN checkpoints THEN checkpoints[key] ELSE EmptyState
           st    == MergeInput(saved, [messages |-> messages[t],
                                       client_id |-> resolved[t].id])
       IN  /\ state' = [state EXCEPT ![t] = st]
           /\ loop_base' = [loop_base EXCEPT ![t] = Len(st.messages)]
           /\ checkpoints' = UpsertSession(checkpoints, key, st)
    /\ next_nodes' = [next_nodes EXCEPT ![t] = EntryPoint]
    /\ pc' = [pc EXCEPT ![t] = "graph"]
    /\ UNCHANGED <<clients, kpis, sessions, message_log, clock, inputVars,
                   persist_ok, step, decisions, tool_steps, tool_done,
                   tool_failed, sent, resultVars, asideVars>>

\* A superstep that runs agent_node: the backend's reply is appended and the
\* conditional edge decides what runs next.
AgentNode(t, reply) ==
    /\ pc[t] = "graph"
    /\ "agent" \in next_nodes[t]
    /\ step[t] < RecursionLimit
    /\ sent' = [sent EXCEPT ![t] = BackendRequest(state[t])]
    /\ LET st == AgentUpdate(state[t], reply)
       IN  /\ state' = [state EXCEPT ![t] = st]
           /\ next_nodes' = [next_nodes EXCEPT ![t] = (@ \ {"agent"}) \cup router(st)]
           /\ checkpoints' = UpsertSession(checkpoints, session_key[t], st)
    /\ step' = [step EXCEPT ![t] = @ + 1]
    /\ decisions' = [decisions EXCEPT ![t] = @ + 1]
    /\ tool_done' = [tool_done EXCEPT ![t] = <<>>]
    /\ tool_failed' = [tool_failed EXCEPT ![t] = {}]
    /\ UNCHANGED <<clients, kpis, sessions, message_log, clock, pc, inputVars,
                   persist_ok, loop_base, tool_steps, resultVars, asideVars>>

\* llm_with_tools.invoke raises (the backend fails or times out): nothing
\* catches it in agent_node, graph.invoke or invoke, and chat_with_agent
\* answers 500 with the exception's text.
AgentNodeFails(t) ==
    /\ pc[t] = "graph"
    /\ "agent" \in next_nodes[t]
    /\ step[t] < RecursionLimit
    /\ pc' = [pc EXCEPT ![t] = "raised"]
    /\ error' = [error EXCEPT ![t] = "BackendError"]
    /\ sent' = [sent EXCEPT ![t] = BackendRequest(state[t])]
    /\ tool_done' = [tool_done EXCEPT ![t] = <<>>]
    /\ tool_failed' = [tool_failed EXCEPT ![t] = {}]
    /\ UNCHANGED <<storeVars, inputVars, persist_ok, state, loop_base, next_nodes,
                   step, decisions, tool_steps, answer, updated_history, asideVars>>

\* ToolNode hands the calls of the last message to a thread pool: one of
\* them completes.
ToolCallCompletes(t, i) ==
    /\ pc[t] = "graph"
    /\ "tools" \in next_nodes[t]
    /\ step[t] < RecursionLimit
    /\ i \in 1..Len(Last(state[t].messages).tool_calls)
    /\ \A j \in 1..Len(tool_done[t]) : tool_done[t][j] # i
    /\ tool_done' = [tool_done EXCEPT ![t] = Append(@, i)]
    /\ kpis' = StoreAfterCall(kpis, Last(state[t].messages).tool_calls[i])
    /\ UNCHANGED <<clients, sessions, message_log, clock, checkpoints, pc,
                   inputVars, persist_ok, state, loop_base, next_nodes, step,
                   decisions, tool_steps, tool_failed, sent, resultVars,
                   asideVars>>

\* One of the calls runs its tool and the tool raises (the read of db.kpis
\* fails), and ToolNode's error handler takes the exception: the call
\* completes with an error text.  No tool and no service catches anything.
ToolCallFails(t, i) ==
    /\ pc[t] = "graph"
    /\ "tools" \in next_nodes[t]
    /\ step[t] < RecursionLimit
    /\ i \in 1..Len(Last(state[t].messages).tool_calls)
    /\ \A j \in 1..Len(tool_done[t]) : tool_done[t][j] # i
    /\ ToolRuns(Last(state[t].messages).tool_calls[i])
    /\ tool_done' = [tool_done EXCEPT ![t] = Append(@, i)]
    /\ tool_failed' = [tool_failed EXCEPT ![t] = @ \cup {i}]
    /\ UNCHANGED <<storeVars, pc, inputVars, persist_ok, state, loop_base,
                   next_nodes, step, decisions, tool_steps, sent, resultVars,
                   asideVars>>

\* One of the calls runs its tool and the tool raises, and ToolNode's error
\* handler raises the exception again (the handler of the releases that take
\* only the errors of the call's arguments): it leaves graph.invoke and
\* invoke, and chat_with_agent answers 500.
ToolCallRaises(t, i) ==
    /\ pc[t] = "graph"
    /\ "tools" \in next_nodes[t]
    /\ step[t] < RecursionLimit
    /\ i \in 1..Len(Last(state[t].messages).tool_calls)
    /\ \A j \in 1..Len(tool_done[t]) : tool_done[t][j] # i
    /\ ToolRuns(Last(state[t].messages).tool_calls[i])
    /\ pc' = [pc EXCEPT ![t] = "raised"]
    /\ error' = [error EXCEPT ![t] = "ToolError"]
    /\ tool_done' = [tool_done EXCEPT ![t] = <<>>]
    /\ tool_failed' = [tool_failed EXCEPT ![t] = {}]
    /\ UNCHANGED <<storeVars, inputVars, persist_ok, state, loop_base, next_nodes,
                   step, decisions, tool_steps, sent, answer, updated_history,
                   asideVars>>

\* A superstep that runs tool_node ends: every call completed, the tool
\* messages are appended and the edge tools -> agent is followed.
ToolNodeReturn(t) ==
    /\ pc[t] = "graph"
    /\ "tools" \in next_nodes[t]
    /\ step[t] < RecursionLimit
    /\ LET calls == Last(state[t].messages).tool_calls
           st    == [state[t] EXCEPT !.messages =
                        @ \o ToolNodeOutputs(calls, tool_done[t], tool_failed[t])]
       IN  /\ Len(tool_done[t]) = Len(calls)
           /\ state' = [state EXCEPT ![t] = st]
           /\ checkpoints' = UpsertSession(checkpoints, session_key[t], st)
    /\ next_nodes' = [next_nodes EXCEPT ![t] = (@ \ {"tools"}) \cup ToolsEdge]
    /\ step' = [step EXCEPT ![t] = @ + 1]
    /\ tool_steps' = [tool_steps EXCEPT ![t] = @ + 1]
    /\ UNCHANGED <<clients, kpis, sessions, message_log, clock, pc, inputVars,
                   persist_ok, loop_base, decisions, tool_done, tool_failed,
                   sent, resultVars, asideVars>>

\* The runtime has run RecursionLimit supersteps and nodes are still
\* scheduled: it raises GraphRecursionError, which invoke does not catch.
RecursionLimitHit(t) ==
    /\ pc[t] = "graph"
    /\ next_nodes[t] # {}
    /\ step[t] >= RecursionLimit
    /\ pc' = [pc EXCEPT ![t] = "raised"]
    /\ error' = [error EXCEPT ![t] = "GraphRecursionError"]
    /\ UNCHANGED <<storeVars, inputVars, persist_ok, graphVars, answer,
                   updated_history, asideVars>>

\* No node is scheduled: graph.invoke returns the state; invoke lines 193-211
\* compute the answer, persist it and return; now is the time add_message
\* reads.
InvokeReturn(t, now) ==
    /\ pc[t] = "graph"
    /\ next_nodes[t] = {}
    /\ now >= clock
    /\ clock' = now
    /\ LET final_messages == state[t].messages
           ans == FinalAnswer(final_messages)
       IN  /\ answer' = [answer EXCEPT ![t] = ans]
           /\ message_log' = add_message(message_log, session_key[t], "ai", ans, now)
           /\ updated_history' = [updated_history EXCEPT ![t] =
                                     UpdatedHistory(final_messages)]
    /\ pc' = [pc EXCEPT ![t] = "returned"]
    /\ UNCHANGED <<clients, kpis, sessions, checkpoints, inputVars, persist_ok,
                   graphVars, error, asideVars>>

\* create_client putting the new client in the place of the clients there
\* are.
CreateClient_Replace(payload) ==
    /\ clients' = IF CreateClientOk(clients, payload)
                  THEN {payload[1]} ELSE clients
    /\ UNCHANGED <<kpis, sessions, message_log, clock, checkpoints, pc, inputVars,
                   persist_ok, graphVars, resultVars, asideVars>>

\* POST /agent/clients: create_client inserts the client unless the payload
\* has no client_id or the client exists (then the endpoint answers 400).
CreateClient(payload) ==
    /\ clients' = IF CreateClientOk(clients, payload)
                  THEN clients \cup {payload[1]} ELSE clients
    /\ UNCHANGED <<kpis, sessions, message_log, clock, checkpoints, pc, inputVars,
                   persist_ok, graphVars, resultVars, asideVars>>

\* The turns run one after the other, in the order of their numbers.
MayStart(t) == \A u \in Turns : u < t => pc[u] \in {"returned", "raised"}

Next ==
    \/ \E t \in Turns, r \in Requests : MayStart(t) /\ InvokeResolve(t, r)
    \/ \E t \in Turns : InvokePersist(t)
    \/ \E t \in Turns : InvokeAddHuman(t, clock + 1)
    \/ \E t \in Turns : GraphStart(t)
    \/ \E t \in Turns, reply \in BackendReplies : AgentNode(t, reply)
    \/ \E t \in Turns : AgentNodeFails(t)
    \/ \E t \in Turns, i \in 1..2 : ToolCallCompletes(t, i)
    \/ \E t \in Turns, i \in FailingCalls : ToolCallFails(t, i)
    \/ \E t \in Turns, i \in FailingCalls : ToolCallRaises(t, i)
    \/ \E t \in Turns : ToolNodeReturn(t)
    \/ \E t \in Turns : RecursionLimitHit(t)
    \/ \E t \in Turns : InvokeReturn(t, clock + 1)
    \/ \E payload \in ClientPayloads : CreateClient(payload)

Spec == Init /\ [][Next]_vars

\* The runtime merges the value v into a client_id channel with the channel's
\* reducer, prefer_new_nonempty.
Merge(v) ==
    /\ Len(merge.inputs) < MaxMerges
    /\ merge' = [merge EXCEPT !.inputs = Append(@, v),
                              !.field = prefer_new_nonempty(@, v)]
    /\ UNCHANGED <<engineVars, startup, tool_run, kpi_query, client_calls>>

NextMerge == \E v \in MergeValues : Merge(v)

\* The turns run side by side, as chat_with_agent does in the threads of the
\* server: every interleaving of their steps.  Two human messages may be
\* logged within the same millisecond; an answer is logged later than what
\* was logged before it (the backend call takes time).
NextConcurrent ==
    \/ \E t \in Turns, r \in ConcurrentRequests : InvokeResolve(t, r)
    \/ \E t \in Turns : InvokePersist(t)
    \/ \E t \in Turns, now \in {clock, clock + 1} : InvokeAddHuman(t, now)
    \/ \E t \in Turns : GraphStart(t)
    \/ \E t \in Turns, reply \in ConcurrentReplies : AgentNode(t, reply)
    \/ \E t \in Turns : AgentNodeFails(t)
    \/ \E t \in Turns : ToolCallCompletes(t, 1)
    \/ \E t \in Turns : ToolNodeReturn(t)
    \/ \E t \in Turns : RecursionLimitHit(t)
    \/ \E t \in Turns : InvokeReturn(t, clock + 1)

SpecConcurrent == Init /\ [][NextConcurrent]_vars

\* The reducer on its own, on a channel that starts empty.
SpecMerge == Init /\ [][NextMerge]_vars

NextWindow == \E t \in Turns, r \in WindowRequests : InvokeResolve(t, r)

\* The first lines of invoke on histories of every length.
SpecWindow == Init /\ [][NextWindow]_vars

\* main.py lines 21-24, run when the server imports the module: the engine is
\* constructed and kept in app.state.graph; an exception ends the import and
\* the server does not start.
ImportMain ==
    /\ startup.pc = "import"
    /\ LET made == Construct(startup.env, startup.world, "qwen2.5:7b-instruct",
                             GetEnv(startup.env.OLLAMA_BASE_URL, DefaultBaseUrl))
       IN  startup' = [startup EXCEPT
               !.pc = IF made.error = "" THEN "serving" ELSE "failed",
               !.checks = made.checks, !.error = made.error,
               !.llm = made.llm, !.graph = made.graph]
    /\ UNCHANGED <<engineVars, merge, tool_run, kpi_query, client_calls>>

NextStartup == ImportMain

\* The import of main.py in every environment, with every backend.
InitStartup ==
    /\ InitEngine /\ KpisSeeded /\ MergeIdle /\ ToolsIdle /\ QueryIdle
    /\ ClientCallsIdle
    /\ startup \in {StartupOf(env, world) : env \in Environments, world \in Worlds}

SpecStartup == InitStartup /\ [][NextStartup]_vars

\* The clock of the last tool run, 0 before the first.
ToolClock == IF tool_run = <<>> THEN 0 ELSE Last(tool_run).now

\* One of all_tools is called with validated arguments, as ToolNode calls
\* it; now is what datetime.now gives during the call.
RunTool(name, args, now) ==
    /\ Len(tool_run) < MaxToolRuns
    /\ now >= ToolClock
    /\ tool_run' = Append(tool_run,
           [name |-> name, args |-> args, now |-> now, before |-> kpis,
            result |-> ToolValue(kpis, name, args, now)])
    /\ kpis' = StoreAfterTool(kpis, name, args)
    /\ UNCHANGED <<clients, sessions, message_log, clock, checkpoints, pc,
                   inputVars, persist_ok, graphVars, resultVars, merge, startup,
                   kpi_query, client_calls>>

NextTools ==
    \E name \in ToolNames, now \in {ToolClock, ToolClock + 1} :
        \E args \in ArgsOf(name) : RunTool(name, args, now)

\* The registered tools called one after the other on every data set.
InitTools ==
    /\ InitEngine /\ MergeIdle /\ StartupIdle /\ ToolsIdle /\ QueryIdle
    /\ ClientCallsIdle
    /\ kpis \in KpiDataSets

SpecTools == InitTools /\ [][NextTools]_vars

\* The MCP server runs query_kpi_data for a call.
QueryKpiData ==
    /\ ~kpi_query.done
    /\ LET q == kpi_query.call
       IN  kpi_query' = [kpi_query EXCEPT
               !.done = TRUE,
               !.result = query_kpi_data(q.dir, q.start_date, q.end_date,
                                         q.kpi_name, q.client_id, q.limit),
               !.read = files_read(q.dir, q.start_date, q.end_date,
                                   q.kpi_name, q.client_id, q.limit)]
    /\ UNCHANGED <<engineVars, merge, startup, tool_run, client_calls>>

NextQuery == QueryKpiData

\* query_kpi_data on every call.
InitQuery ==
    /\ InitEngine /\ KpisSeeded /\ MergeIdle /\ StartupIdle /\ ToolsIdle
    /\ ClientCallsIdle
    /\ kpi_query \in {QueryOf(q) : q \in KpiQueries}

SpecQuery == InitQuery /\ [][NextQuery]_vars

\* The client_id of the records of db.clients.
ClientIds(docs) == {docs[i] : i \in 1..Len(docs)}

\* create_client up to its test: find_one runs unless the payload has no
\* client_id; the call returns False, and add_client answers 400, when the
\* payload has none or the record was found; else insert_one is what runs
\* next.
CreateClientFind(c, payload) ==
    /\ client_calls.calls[c].pc = "idle"
    /\ client_calls' = [client_calls EXCEPT !.calls[c] =
           IF CreateClientOk(ClientIds(client_calls.docs), payload)
           THEN CreateCall("insert", payload, FALSE, 0)
           ELSE CreateCall("returned", payload, FALSE, 400)]
    /\ UNCHANGED <<engineVars, merge, startup, tool_run, kpi_query>>

\* insert_one: the unique index on client_id (ensure_indexes) rejects a
\* record whose client_id another record holds with DuplicateKeyError, which
\* neither create_client nor add_client catches: the server answers 500.
\* Else the record is inserted and the call returns True.
CreateClientInsert(c) ==
    /\ client_calls.calls[c].pc = "insert"
    /\ LET payload == client_calls.calls[c].payload
       IN  IF payload[1] \in ClientIds(client_calls.docs)
           THEN /\ client_calls' = [client_calls EXCEPT !.calls[c] =
                       CreateCall("raised", payload, FALSE, 500)]
                /\ UNCHANGED clients
           ELSE /\ client_calls' = [client_calls EXCEPT
                       !.docs = Append(@, payload[1]),
                       !.calls[c] = CreateCall("returned", payload, TRUE, 200)]
                /\ clients' = clients \cup {payload[1]}
    /\ UNCHANGED <<kpis, sessions, message_log, clock, checkpoints, pc,
                   inputVars, persist_ok, graphVars, resultVars, merge, startup,
                   tool_run, kpi_query>>

NextClients ==
    \/ \E c \in Creators, payload \in CreatePayloads : CreateClientFind(c, payload)
    \/ \E c \in Creators : CreateClientInsert(c)

\* Calls of POST /agent/clients in the threads of the server: every
\* interleaving of their reads and writes of db.clients.
SpecClients == Init /\ [][NextClients]_vars

\* ------------------------------------------------------------------ helpers

\* The turn has resolved its client id.
Resolved(t) == pc[t] # "idle"

\* The turn's graph run has started.
Started(t) == pc[t] \in {"graph", "returned", "raised"}

\* The messages the turn's loop appended to the state.
LoopMessages(t) ==
    SubSeq(state[t].messages, loop_base[t] + 1, Len(state[t].messages))

\* The text the heuristic scans: the joined contents of the turn's messages.
TurnText(t) == Join(Contents(messages[t]))

\* The request's client_id is None, empty or only whitespace.
ExplicitAbsent(t) ==
    \A i \in 1..Len(OrEmpty(req[t].client_id)) :
        OrEmpty(req[t].client_id)[i] \in Whitespace

\* e is raw without the whitespace around it, and is not empty.
IsTrimOf(e, raw) ==
    /\ e # <<>>
    /\ e[1] \notin Whitespace
    /\ e[Len(e)] \notin Whitespace
    /\ \E a \in 0..Len(raw) :
          /\ a + Len(e) <= Len(raw)
          /\ SubSeq(raw, a + 1, a + Len(e)) = e
          /\ \A i \in 1..a : raw[i] \in Whitespace
          /\ \A i \in (a + Len(e) + 1)..Len(raw) : raw[i] \in Whitespace

\* The state of the turn's loop as the specification names it.
LoopState(t) ==
    CASE pc[t] \in {"idle", "resolved", "persisted", "human_added"} -> "NOT_STARTED"
      [] pc[t] = "raised" -> "ABORTED"
      [] next_nodes[t] = {"agent"} -> "DECIDING"
      [] next_nodes[t] = {"tools"} -> "EXECUTING_TOOLS"
      [] next_nodes[t] = {} -> "DONE"
      [] OTHER -> "SEVERAL_NODES"

\* -------------------------------------------------------------------- claims

\* C1: whenever the assistant message a Decision Step appends carries no tool
\* calls, no node is scheduled after it (the loop is DONE) and, once invoke
\* has returned, its answer is the content of that message; when the first
\* Decision Step of the turn appends such a message, the turn has run exactly
\* one Decision Step and no Tool-Execution step.
C1_NoToolCallsEndsLoop ==
    \A t \in Turns :
        LET lm == LoopMessages(t)
        IN  /\ (Started(t) /\ lm # <<>> /\ Last(lm).type = "ai"
                   /\ ~HasToolCalls(Last(lm)))
                => /\ next_nodes[t] = {}
                   /\ pc[t] # "raised"
                   /\ pc[t] = "returned" => answer[t] = Last(lm).content
            /\ (Started(t) /\ lm # <<>> /\ ~HasToolCalls(lm[1]))
                => /\ decisions[t] = 1
                   /\ tool_steps[t] = 0
                   /\ Len(lm) = 1

\* A turn that returned after one Decision Step, on a state that already
\* held other messages, with the backend's text as its answer.
C1_Witness ==
    \E t \in Turns :
        /\ pc[t] = "returned"
        /\ decisions[t] = 1
        /\ tool_steps[t] = 0
        /\ loop_base[t] > 1
        /\ answer[t] = T_done

\* C2: in the messages the turn's loop appended, every assistant message with
\* k >= 1 tool calls that is not the last message is followed at once by k
\* tool messages, the j-th carrying the id, the name and the result of the
\* j-th call, whatever the order in which the calls completed; after them the
\* agent node is what runs next (an assistant message follows, or the agent
\* node is scheduled).
C2_ToolResultsInCallOrder ==
    \A t \in Turns :
        Started(t) =>
            LET msgs == state[t].messages
            IN  \A i \in (loop_base[t] + 1)..Len(msgs) :
                    LET calls == msgs[i].tool_calls
                        k == Len(calls)
                    IN  (HasToolCalls(msgs[i]) /\ i < Len(msgs))
                        => /\ Len(msgs) >= i + k
                           /\ \A j \in 1..k :
                                 /\ msgs[i + j].type = "tool"
                                 /\ msgs[i + j].tool_call_id = calls[j].id
                                 /\ msgs[i + j].name = calls[j].name
                                 /\ msgs[i + j].content
                                       \in {RunToolCall(calls[j]), ToolFailure}
                           /\ Len(msgs) > i + k => msgs[i + k + 1].type = "ai"
                           /\ Len(msgs) = i + k => next_nodes[t] = {"agent"}

\* A tool step of two calls whose second call completed first, its two
\* results appended.
C2_Witness ==
    \E t \in Turns :
        /\ pc[t] = "graph"
        /\ tool_done[t] = <<2, 1>>
        /\ next_nodes[t] = {"agent"}
        /\ Len(state[t].messages) >= 3
        /\ Last(state[t].messages).type = "tool"
        /\ Last(state[t].messages).tool_call_id = "call_a"

\* What one step may do to the loop state of turn t.
C3_Step(t) ==
    LET from == LoopState(t)
        to   == LoopState(t)'
    IN  /\ to # "SEVERAL_NODES"
        /\ (from = "NOT_STARTED" /\ to # from) => to = "DECIDING"
        /\ (to = "EXECUTING_TOOLS" /\ to # from)
              => from = "DECIDING" /\ HasToolCalls(Last(state'[t].messages))
        /\ (to = "DONE" /\ to # from) => from = "DECIDING"
        /\ from = "DONE"
              => to = "DONE" /\ state'[t] = state[t] /\ step'[t] = step[t]
        /\ decisions'[t] # decisions[t] => from = "DECIDING"
        /\ (tool_done'[t] # tool_done[t] \/ tool_steps'[t] # tool_steps[t])
              => from = "EXECUTING_TOOLS" \/ (from = "DECIDING" /\ tool_done'[t] = <<>>)

\* C3: the loop of a turn starts in DECIDING, enters EXECUTING_TOOLS only from
\* DECIDING and only when the last message carries tool calls, enters DONE
\* only from DECIDING and takes no step after it, and never has the agent
\* node and the tool node scheduled together; the agent node runs only in
\* DECIDING and tool calls run only in EXECUTING_TOOLS.
C3_ThreeStateLoop == [][\A t \in Turns : C3_Step(t)]_vars

\* A loop that went DECIDING, EXECUTING_TOOLS, DECIDING, DONE.
C3_Witness ==
    \E t \in Turns :
        /\ pc[t] = "graph"
        /\ LoopState(t) = "DONE"
        /\ decisions[t] = 2
        /\ tool_steps[t] = 1

\* The turn is over: invoke returned or an exception left it.
Over(t) == pc[t] \in {"returned", "raised"}

\* Every Decision Step of the turn asked for tool calls, and the runtime
\* stopped the loop at its superstep limit.
LoopBoundExceeded(t) ==
    /\ Over(t)
    /\ step[t] >= RecursionLimit
    /\ next_nodes[t] # {}
    /\ \A i \in 1..Len(LoopMessages(t)) :
          LoopMessages(t)[i].type = "ai" => HasToolCalls(LoopMessages(t)[i])

\* C4: a turn whose backend asks for tool calls on every Decision Step ends
\* at the loop bound with invoke returning the fallback message, not with an
\* exception.
C4_LoopBoundGivesFallback ==
    \A t \in Turns :
        LoopBoundExceeded(t) => pc[t] = "returned" /\ answer[t] = Fallback

\* The backend call of a Decision Step of the turn failed.
BackendFailed(t) == error[t] = "BackendError"

\* C5: when the backend call of a Decision Step fails, invoke returns: the
\* answer is the fallback message, the updated history holds the turn's human
\* message, and the endpoint does not answer with the exception.
C5_BackendFailureGivesFallback ==
    \A t \in Turns :
        BackendFailed(t)
            => /\ pc[t] = "returned"
               /\ answer[t] = Fallback
               /\ \E i \in 1..Len(updated_history[t]) :
                     updated_history[t][i] = [type |-> "human", content |-> req[t].query]

\* C6: when the request's client_id is not empty after trimming, the resolved
\* id is that client_id without the whitespace around it, whatever the store
\* holds for the session and whatever the messages contain; a client_id that
\* is empty or only whitespace never wins as the explicit id.
C6_ExplicitIdWins ==
    \A t \in Turns :
        Resolved(t) =>
            /\ ~ExplicitAbsent(t)
                  => /\ IsTrimOf(resolved[t].id, OrEmpty(req[t].client_id))
                     /\ resolved[t].source = "explicit"
            /\ ExplicitAbsent(t) => resolved[t].source # "explicit"

\* An explicit id with whitespace around it, resolved to its trimmed value
\* while the store holds another id and the text holds a third.
C6_Witness ==
    \E t \in Turns :
        /\ Resolved(t)
        /\ req[t].client_id = <<SP \o T_client2 \o SP>>
        /\ stored_seen[t] = T_client1
        /\ extract_client_id(TurnText(t)) = <<T_client1>>
        /\ resolved[t].id = T_client2

\* C7: when the explicit id is absent and the store holds a non-empty id for
\* the session, the resolved id is the stored one, whatever the text holds;
\* the text heuristic is consulted only when the explicit id is absent and
\* the store holds nothing for the session.
C7_StoredIdBeforeText ==
    \A t \in Turns :
        Resolved(t) =>
            /\ (ExplicitAbsent(t) /\ stored_seen[t] # <<>>)
                  => resolved[t].id = stored_seen[t] /\ resolved[t].source = "session"
            /\ resolved[t].source \in {"text", "none"}
                  => ExplicitAbsent(t) /\ stored_seen[t] = <<>>

\* A turn without explicit id whose text holds the token "show", resolved to
\* the id the store held.
C7_Witness ==
    \E t \in Turns :
        /\ Resolved(t)
        /\ ExplicitAbsent(t)
        /\ stored_seen[t] = T_client1
        /\ extract_client_id(TurnText(t)) = <<T_show>>
        /\ resolved[t].id = T_client1

\* C8: with no explicit id, nothing stored for the session and an empty
\* history, the query "show churn for client42 please" resolves to
\* "client42".
C8_ExampleResolvesClient42 ==
    \A t \in Turns :
        (/\ Resolved(t)
         /\ req[t].client_id = <<>>
         /\ req[t].history = <<>>
         /\ req[t].query = Q_show_churn
         /\ stored_seen[t] = <<>>)
            => resolved[t].id = T_client42

\* The write step of turn t is the step from "resolved" to "persisted".
WriteStep(t) == pc[t] = "resolved" /\ pc'[t] = "persisted"

\* C9 as claimed: after the write step of a turn that resolved a non-empty id,
\* the store holds that id for the session, whether or not the id is known.
C9_EveryResolvedIdStored ==
    [][\A t \in Turns :
          (WriteStep(t) /\ resolved[t].id # <<>>)
              => get_active_client_id(sessions', session_key[t]) = resolved[t].id]_vars

\* C9 amended: after the write step of a turn that resolved the id of a
\* registered client, the store holds that id for the session; the write step
\* of a turn that resolved any other id leaves the session records as they
\* were; and the write step comes before the loop: the graph run starts only
\* after the human message was logged, which follows the write step, and the
\* agent node runs only in the graph run.
C9_RegisteredIdStoredBeforeLoop ==
    [][\A t \in Turns :
          /\ (WriteStep(t) /\ resolved[t].id \in clients)
                => get_active_client_id(sessions', session_key[t]) = resolved[t].id
          /\ (WriteStep(t) /\ resolved[t].id \notin clients) => sessions' = sessions
          /\ (pc'[t] = "persisted" /\ pc[t] # "persisted") => pc[t] = "resolved"
          /\ (pc'[t] = "human_added" /\ pc[t] # "human_added") => pc[t] = "persisted"
          /\ (pc'[t] = "graph" /\ pc[t] # "graph") => pc[t] = "human_added"
          /\ decisions'[t] # decisions[t] => pc[t] = "graph"]_vars

\* Right after the write step of a turn whose id came from the text, the
\* store holds that id where it held nothing before.
C9_Witness ==
    \E t \in Turns :
        /\ pc[t] = "persisted"
        /\ resolved[t].source = "text"
        /\ stored_seen[t] = <<>>
        /\ resolved[t].id = T_client1
        /\ get_active_client_id(sessions, session_key[t]) = T_client1

\* Turn t takes the step.
TurnStep(t) ==
    \/ pc'[t] # pc[t]
    \/ state'[t] # state[t]
    \/ tool_done'[t] # tool_done[t]

\* C10: no step of a turn that resolved the empty id changes the session
\* records: the stored active ids and the set of sessions that have a record
\* are the same after the step as before.
C10_EmptyIdWritesNothing ==
    [][\A t \in Turns :
          (TurnStep(t) /\ pc'[t] # "idle" /\ resolved'[t].id = <<>>)
              => sessions' = sessions]_vars

\* A turn that resolved the empty id has returned and its session has no
\* record.
C10_Witness ==
    \E t \in Turns :
        /\ pc[t] = "returned"
        /\ resolved[t].id = <<>>
        /\ resolved[t].source = "none"
        /\ session_key[t] \notin DOMAIN sessions

\* The request of turn u carries an explicit id, and it is not x.
ExplicitOther(u, x) ==
    ~ExplicitAbsent(u) /\ Strip(OrEmpty(req[u].client_id)) # x

\* Turn t2 is a later turn on the session of turn t1 that supplies no explicit
\* id, and no turn on that session between them supplied an explicit id other
\* than the one t1 resolved.
ContinuedFrom(t1, t2) ==
    /\ t1 < t2
    /\ Over(t1)
    /\ Resolved(t2)
    /\ session_key[t2] = session_key[t1]
    /\ ExplicitAbsent(t2)
    /\ \A u \in Turns :
          (t1 < u /\ u < t2 /\ session_key[u] = session_key[t1])
              => ~ExplicitOther(u, resolved[t1].id)

\* Turn t2 resolved x and, once its loop has started, runs it with x.
RunsWith(t2, x) ==
    /\ resolved[t2].id = x
    /\ Started(t2) => state[t2].client_id = x

NonBlank(v) == \E i \in 1..Len(v) : v[i] \notin Whitespace

\* The most recent of the merged values that is not blank, the initial value
\* when there is none.
LastNonBlank(m) ==
    LET nb == {i \in 1..Len(m.inputs) : NonBlank(m.inputs[i])}
    IN  IF nb = {} THEN m.initial ELSE m.inputs[SetMax(nb)]

\* C12: a merge of the value v into the client_id field leaves v in the field
\* when v holds a character that is no whitespace, and leaves the field as it
\* was otherwise; after any sequence of merges the field holds the most
\* recent merged value that was not blank, or the initial value if every
\* merged value was blank.
C12_PreferNewNonEmpty ==
    [][merge' # merge =>
          LET v == Last(merge'.inputs)
          IN  /\ merge'.inputs = Append(merge.inputs, v)
              /\ NonBlank(v) => merge'.field = v
              /\ ~NonBlank(v) => merge'.field = merge.field
              /\ merge'.field = LastNonBlank(merge')]_vars

\* An id, then " " and "" merged after it: the field still holds the id.
C12_Witness ==
    /\ merge.inputs = <<T_client1, SP, <<>>>>
    /\ merge.field = T_client1

\* The type and the content of every element, in order.
Pairs(s) == [i \in 1..Len(s) |-> <<s[i].type, s[i].content>>]

\* out is full when full has at most ten elements, and its last ten otherwise.
IsLastTenOf(out, full) ==
    /\ Len(out) = IF Len(full) > 10 THEN 10 ELSE Len(full)
    /\ \A i \in 1..Len(out) : out[i] = full[Len(full) - Len(out) + i]

IsHumanOrAi(m) == m.type \in {"human", "ai"}

\* C13 as claimed: the messages invoke builds are the last ten of every entry
\* of the caller's history followed by the new human message.
C13_WholeHistoryWindowed ==
    \A t \in Turns :
        Resolved(t) =>
            IsLastTenOf(Pairs(messages[t]),
                        Pairs(req[t].history) \o <<<<"human", req[t].query>>>>)

\* C13 amended: the messages invoke builds are the entries of type human and
\* ai of the caller's history, in their order, followed by the new human
\* message, cut to the last ten: all of them when they are at most ten,
\* exactly the last ten in their order otherwise; the new human message is
\* the last element, and no message carries tool calls.
C13_HumanAiHistoryWindowed ==
    \A t \in Turns :
        Resolved(t) =>
            /\ IsLastTenOf(Pairs(messages[t]),
                           Pairs(SelectSeq(req[t].history, IsHumanOrAi))
                               \o <<<<"human", req[t].query>>>>)
            /\ Last(messages[t]) = HumanMessage(req[t].query)
            /\ \A i \in 1..Len(messages[t]) : ~HasToolCalls(messages[t][i])

\* A history of twelve human and ai entries: ten messages are kept, the
\* first of them the history's fourth entry.
C13_Witness ==
    \E t \in Turns :
        /\ Resolved(t)
        /\ Len(req[t].history) = 12
        /\ Len(SelectSeq(req[t].history, IsHumanOrAi)) = 12
        /\ Len(messages[t]) = 10
        /\ messages[t][1] = AIMessage(<<"d">>, <<>>)
        /\ Last(messages[t]).content = Q_hi

\* The messages the state held when the turn's first Decision Step ran.
FirstDecisionMessages(t) == SubSeq(state[t].messages, 1, loop_base[t])

\* C14: the state the first Decision Step of a turn receives holds exactly the
\* turn's windowed messages and the turn's resolved id, and nothing that the
\* checkpoint of the session kept from an earlier turn.
C14_LoopSeesOnlyTurnInput ==
    \A t \in Turns :
        Started(t) =>
            /\ FirstDecisionMessages(t) = messages[t]
            /\ Len(FirstDecisionMessages(t)) <= HistoryWindow
            /\ state[t].client_id = resolved[t].id

\* The content of a tool message is an error payload.
IsErrorPayload(c) == c # <<>> /\ c[1] = "error"

\* C15: for every call of an assistant message whose name is not a registered
\* tool or whose arguments the tool's schema rejects, the tool step appends a
\* tool message for that call with an error payload and the agent node is
\* what runs next; and a tool step whose calls are all of that kind never
\* ends the turn with an exception of a tool.
C15_BadCallGivesErrorMessage ==
    \A t \in Turns :
        Started(t) =>
            LET msgs == state[t].messages
            IN  \A i \in (loop_base[t] + 1)..Len(msgs) :
                    LET calls == msgs[i].tool_calls
                        k == Len(calls)
                    IN  /\ (HasToolCalls(msgs[i]) /\ i < Len(msgs))
                            => /\ Len(msgs) >= i + k
                               /\ \A j \in 1..k :
                                     ~ToolRuns(calls[j])
                                        => /\ msgs[i + j].type = "tool"
                                           /\ msgs[i + j].tool_call_id = calls[j].id
                                           /\ IsErrorPayload(msgs[i + j].content)
                               /\ Len(msgs) > i + k => msgs[i + k + 1].type = "ai"
                               /\ Len(msgs) = i + k => next_nodes[t] = {"agent"}
                        /\ (HasToolCalls(msgs[i]) /\ i = Len(msgs)
                               /\ \A j \in 1..k : ~ToolRuns(calls[j]))
                            => error[t] # "ToolError"

\* A tool step of a call of the unknown tool get_weather and a call of
\* get_kpi_trend_analysis without kpi_name has appended its two error
\* messages, and the next Decision Step has answered.
C15_Witness ==
    \E t \in Turns :
        LET msgs == state[t].messages
            n == Len(msgs)
        IN  /\ pc[t] = "returned"
            /\ n >= 4
            /\ msgs[n - 3].tool_calls = CallsBad
            /\ msgs[n - 2].content = <<"error", "not a valid tool">>
            /\ msgs[n - 1].content = <<"error", "validation">>
            /\ msgs[n].type = "ai"
            /\ answer[t] = T_done

\* C16: the failure of a registered tool's execution never ends the turn with
\* an exception that leaves invoke: the turn goes on with an error message.
C16_ToolFailureStaysInLoop ==
    \A t \in Turns : Over(t) => error[t] # "ToolError"

\* The log a is the beginning of the log b: b holds every entry of a, as it
\* was and where it was.
IsPrefix(a, b) == Len(a) <= Len(b) /\ SubSeq(b, 1, Len(a)) = a

\* The turn has logged its human message.
PastAddHuman(u) == pc[u] \in {"human_added", "graph", "returned", "raised"}

\* The entries of the log that are the human message of a turn like t (its
\* session, its query), and the turns like t that have logged theirs.
HumanEntries(t) ==
    {i \in 1..Len(message_log) :
        /\ message_log[i].session_id = session_key[t]
        /\ message_log[i].role = "human"
        /\ message_log[i].content = req[t].query}

TurnsLike(t) ==
    {u \in Turns :
        /\ PastAddHuman(u)
        /\ session_key[u] = session_key[t]
        /\ req[u].query = req[t].query}

\* C17: no step removes, changes or reorders an entry of the message log, and
\* after a backend failure in a turn the log holds the turn's human message
\* (one entry for each turn of that session and query that logged one).
C17_LogKeptAfterBackendFailure ==
    [][/\ IsPrefix(message_log, message_log')
       /\ \A t \in Turns :
             BackendFailed(t)' =>
                 /\ HumanEntries(t)' # {}
                 /\ Cardinality(HumanEntries(t)') = Cardinality(TurnsLike(t)')]_vars

\* The backend failed in the second turn: the log holds the first turn's two
\* messages and then the second turn's human message.
C17_Witness ==
    /\ pc[1] = "returned"
    /\ BackendFailed(2)
    /\ Len(message_log) = 3
    /\ message_log[1].role = "human"
    /\ message_log[2].role = "ai"
    /\ message_log[2].content = answer[1]
    /\ message_log[3].role = "human"
    /\ message_log[3].content = req[2].query

\* The entries of the log with the session key and the role.
LogEntries(key, role) ==
    {i \in 1..Len(message_log) :
        message_log[i].session_id = key /\ message_log[i].role = role}

\* No turn is between entering invoke and leaving it.
NoTurnInFlight == \A u \in Turns : pc[u] = "idle" \/ Over(u)

\* C18: a turn that was aborted between entering invoke and returning has
\* left none of its additions: when no turn is in flight, the log of the
\* session of an aborted turn holds an answer for every human message, and a
\* turn that was aborted wrote no active id.
C18_TurnAdditionsAllOrNothing ==
    \A t \in Turns :
        (pc[t] = "raised" /\ NoTurnInFlight)
            => /\ Cardinality(LogEntries(session_key[t], "human"))
                     = Cardinality(LogEntries(session_key[t], "ai"))
               /\ ~persist_ok[t]

\* The session keys of the turns.
SessionKeys == {session_key[t] : t \in Turns} \ {""}

\* The session's messages in the order of their insertion, as get_messages
\* gives them.
InAppendOrder(key) ==
    [i \in 1..Len(SessionDocs(message_log, key)) |->
        [type |-> SessionDocs(message_log, key)[i].role,
         content |-> SessionDocs(message_log, key)[i].content]]

\* C19: under every interleaving of turns on a session, get_messages can only
\* return the session's messages in the order of their insertion, also when
\* two of them carry the same created_at; and the stored active id of a
\* session is an id that one of the session's turns wrote.
C19_MessagesInAppendOrder ==
    \A key \in SessionKeys :
        /\ get_messages(message_log, key) = {InAppendOrder(key)}
        /\ key \in DOMAIN sessions
              => \E t \in Turns :
                    /\ session_key[t] = key
                    /\ persist_ok[t]
                    /\ resolved[t].id = sessions[key]

\* What the stores hold for one session key.
StoredFor(key) ==
    [active |-> get_active_client_id(sessions, key),
     has_record |-> key \in DOMAIN sessions,
     log |-> SessionDocs(message_log, key),
     checkpoint |-> IF key \in DOMAIN checkpoints THEN <<checkpoints[key]>> ELSE <<>>]

\* No other turn has used the session of turn t.
AloneOnSession(t) ==
    \A u \in Turns : (u # t /\ Resolved(u)) => session_key[u] # session_key[t]

\* C20: a step of a turn leaves what the stores hold for every other session
\* (active id, message log, checkpoint) as it was, under every interleaving;
\* and a turn whose session no other turn uses reads nothing of the other
\* sessions: it finds no stored id, its first Decision Step gets its own
\* messages and its own resolved id, and its human message is the first of
\* its session's log.
C20_SessionsIndependent ==
    [][\A t \in Turns :
          /\ TurnStep(t) =>
                \A key \in SessionKeys' :
                    key # session_key'[t] => StoredFor(key)' = StoredFor(key)
          /\ (Started(t)' /\ AloneOnSession(t)') =>
                /\ stored_seen'[t] = <<>>
                /\ FirstDecisionMessages(t)' = messages'[t]
                /\ state'[t].client_id = resolved'[t].id
                /\ SessionDocs(message_log', session_key'[t])[1].content
                      = req'[t].query]_vars

\* Two turns on two sessions ran side by side, their log entries alternating,
\* and each session holds its own id, messages and checkpoint.
C20_Witness ==
    /\ pc[1] = "returned"
    /\ pc[2] = "returned"
    /\ session_key[1] = "s1"
    /\ session_key[2] = "default_session"
    /\ message_log[1].session_id # message_log[2].session_id
    /\ message_log[3].session_id # message_log[4].session_id
    /\ message_log[1].created_at = message_log[2].created_at
    /\ StoredFor("s1").active = T_client1
    /\ StoredFor("default_session").active = T_client2
    /\ StoredFor("s1").checkpoint # StoredFor("default_session").checkpoint

\* ---------------------------------------------------------- claims C21..C30

\* C21 as claimed: once a turn that references a session has passed its write
\* step, the session has a record.
C21_RecordAfterFirstTurn ==
    \A t \in Turns :
        pc[t] \in {"persisted", "human_added", "graph", "returned", "raised"}
            => session_key[t] \in DOMAIN sessions

\* C21: the write step of a turn that resolved the id of a registered client
\* leaves a record of the turn's session holding that id; a record appears or
\* changes only in such a step; and no step removes a record.
C21_SessionLifecycle ==
    [][/\ \A t \in Turns :
             (WriteStep(t) /\ resolved[t].id \in clients)
                => /\ session_key[t] \in DOMAIN sessions'
                   /\ sessions'[session_key[t]] = resolved[t].id
       /\ \A key \in DOMAIN sessions' :
             (key \notin DOMAIN sessions \/ sessions'[key] # sessions[key])
                => \E t \in Turns :
                      /\ WriteStep(t)
                      /\ session_key[t] = key
                      /\ resolved[t].id \in clients
       /\ DOMAIN sessions \subseteq DOMAIN sessions']_vars

\* A second session got its record while the record of the first session, of
\* a turn that has returned, stayed as it was.
C21_Witness ==
    /\ pc[1] = "returned"
    /\ pc[2] = "persisted"
    /\ session_key[1] # session_key[2]
    /\ session_key[1] \in DOMAIN sessions
    /\ session_key[2] \in DOMAIN sessions
    /\ sessions[session_key[1]] # sessions[session_key[2]]

\* C22 as claimed: once the construction of the engine in main.py is over, it
\* has run the reachability check first and the model check after a reachable
\* backend; it failed if a check failed; and an engine that serves has its
\* model client and its graph after both checks succeeded.
C22_ChecksGuardStartup ==
    LET url == resolve_base_url(
                   FirstTruthy(GetEnv(startup.env.OLLAMA_BASE_URL, DefaultBaseUrl),
                     FirstTruthy(startup.env.OLLAMA_HOST, DefaultBaseUrl)))
        reachable == preflight_ollama(startup.world, url)
        available == model_exists(startup.world, url, "qwen2.5:7b-instruct")
    IN  startup.pc # "import" =>
           /\ startup.checks # <<>>
           /\ startup.checks[1] = "reachability"
           /\ reachable => startup.checks = <<"reachability", "model">>
           /\ ~(reachable /\ available) => startup.pc = "failed"
           /\ startup.pc = "serving" =>
                 /\ startup.llm /\ startup.graph
                 /\ reachable /\ available

\* Two runs of the same tool with the same arguments on the same documents.
SameCall(r1, r2) ==
    /\ r1.name = r2.name
    /\ r1.args = r2.args
    /\ r1.before = r2.before

\* C23 as claimed: two runs of a registered tool with identical arguments on
\* unchanged KPI data give identical results, compared as whole values.
C23_ToolsIdempotent ==
    \A i, j \in 1..Len(tool_run) :
        SameCall(tool_run[i], tool_run[j])
            => tool_run[i].result = tool_run[j].result

\* A tool call of turn t is handled in the step: ToolNode ran the tool, or
\* rejected the call, or the tool raised and the handler took the exception.
ToolCallStep(t) ==
    /\ pc[t] = "graph"
    /\ Len(tool_done'[t]) = Len(tool_done[t]) + 1

\* C24: every step in which a tool call is handled, whatever the tool and its
\* arguments, and the step that ends the tool node, leave the clients, the KPI
\* documents, the session records and the message log as they were.
C24_ToolsReadOnly ==
    [][\A t \in Turns :
          (ToolCallStep(t) \/ tool_steps'[t] # tool_steps[t])
              => /\ clients' = clients
                 /\ kpis' = kpis
                 /\ sessions' = sessions
                 /\ message_log' = message_log]_vars

\* A tool step of a turn with a session record and a logged message has run
\* a tool on a client with documents, and the documents are those of the seed.
C24_Witness ==
    \E t \in Turns :
        /\ tool_steps[t] = 1
        /\ sessions # <<>>
        /\ message_log # <<>>
        /\ Last(state[t].messages).type = "tool"
        /\ state[t].messages[Len(state[t].messages) - 1].type = "tool"
        /\ state[t].messages[Len(state[t].messages) - 1].content
              = <<"summary">> \o T_client1
        /\ kpis = SeedKpis

\* Turn t completes a Decision Step.
DecisionStep(t) == decisions'[t] = decisions[t] + 1

\* C25: a Decision Step passes the backend the system instruction, then the
\* note with the active id when the state's client_id is non-empty and no
\* note when it is empty, then the state's messages, all of them in their
\* order; and it leaves the state's messages with exactly one more message,
\* an assistant message, at the end.
C25_DecisionStepRequest ==
    [][\A t \in Turns :
          DecisionStep(t) =>
             LET before == state[t].messages
                 note == IF state[t].client_id # <<>> THEN 1 ELSE 0
                 request == sent'[t]
             IN  /\ Len(request) = 1 + note + Len(before)
                 /\ request[1].type = "system"
                 /\ request[1].content = SystemPrompt
                 /\ note = 1 =>
                       /\ request[2].type = "system"
                       /\ request[2].content
                             = <<"Active client_id for this session: ">>
                               \o state[t].client_id
                 /\ \A i \in 1..Len(before) : request[1 + note + i] = before[i]
                 /\ \A i \in 1..Len(before) : before[i].type # "system"
                 /\ Len(state'[t].messages) = Len(before) + 1
                 /\ SubSeq(state'[t].messages, 1, Len(before)) = before
                 /\ Last(state'[t].messages).type = "ai"]_vars

\* The second Decision Step of a turn with an active id got the note and the
\* tool message of the first tool step; and a Decision Step of a turn without
\* active id got no note.
C25_Witness ==
    /\ decisions[1] = 2
    /\ sent[1][2].content = ActiveNote(T_client1)
    /\ Last(sent[1]).type = "tool"
    /\ Len(sent[1]) = 5
    /\ decisions[2] = 1
    /\ state[2].client_id = <<>>
    /\ sent[2][2].type = "human"

\* The messages of s that are assistant messages.
AiOnly(s) == LET IsAi(m) == m.type = "ai" IN SelectSeq(s, IsAi)

\* C26 as claimed: the updated_history a completed turn returns is the turn's
\* windowed input messages in their order, then the assistant messages the
\* turn's loop produced; it holds no tool entry; and its last entry is the
\* assistant entry whose content is the returned answer.
C26_UpdatedHistoryOfTurn ==
    \A t \in Turns :
        pc[t] = "returned" =>
            /\ Pairs(updated_history[t])
                  = Pairs(messages[t]) \o Pairs(AiOnly(LoopMessages(t)))
            /\ \A i \in 1..Len(updated_history[t]) :
                  updated_history[t][i].type \in {"human", "ai"}
            /\ updated_history[t] # <<>>
            /\ Last(updated_history[t]).type = "ai"
            /\ Last(updated_history[t]).content = answer[t]

\* The log after one more entry for the session, with the role and the content.
LogPlus(log, key, role, content) ==
    /\ Len(message_log') = Len(log) + 1
    /\ SubSeq(message_log', 1, Len(log)) = log
    /\ Last(message_log').session_id = key
    /\ Last(message_log').role = role
    /\ Last(message_log').content = content

\* The entries the turns have logged so far, if each logs its query when it
\* passes add_message and its answer when it returns.
EntriesDue ==
    Cardinality({t \in Turns : PastAddHuman(t)})
    + Cardinality({t \in Turns : pc[t] = "returned"})

\* C27: a turn appends the query with role human to its session's log before
\* its loop runs (no Decision Step has run) and the returned answer with role
\* ai when the loop has ended and invoke returns; no other step of a turn,
\* whatever assistant or tool message it produces, changes the log; so the log
\* holds one entry for every turn past its human message and one more for
\* every turn that completed, two for a completed turn.
C27_TwoLogEntriesPerTurn ==
    [][/\ \A t \in Turns :
             /\ (pc[t] = "persisted" /\ pc'[t] = "human_added") =>
                   /\ LogPlus(message_log, session_key[t], "human", req[t].query)
                   /\ decisions[t] = 0 /\ state[t].messages = <<>>
             /\ (pc[t] = "graph" /\ pc'[t] = "returned") =>
                   /\ LogPlus(message_log, session_key[t], "ai", answer'[t])
                   /\ next_nodes[t] = {}
                   /\ decisions'[t] = decisions[t]
             /\ (pc'[t] = "returned" /\ pc[t] # "returned") => pc[t] = "graph"
       /\ message_log' # message_log =>
             \E t \in Turns :
                 \/ pc[t] = "persisted" /\ pc'[t] = "human_added"
                 \/ pc[t] = "graph" /\ pc'[t] = "returned"
       /\ Len(message_log') = EntriesDue']_vars

\* A turn that ran two tools and two Decision Steps has completed, and the log
\* holds its query and its answer, nothing else.
C27_Witness ==
    /\ pc[1] = "returned"
    /\ pc[2] = "idle"
    /\ tool_steps[1] = 1
    /\ decisions[1] = 2
    /\ Len(state[1].messages) = 5
    /\ Len(message_log) = 2
    /\ message_log[1].role = "human"
    /\ message_log[1].content = req[1].query
    /\ message_log[2].role = "ai"
    /\ message_log[2].content = answer[1]

\* The number of documents db.kpis held for the client of the run.
DocsFor(r) ==
    Cardinality({d \in r.before : d.client_id = r.args.client_id})

\* The run returned an error payload whose text has the part.
ErrorWith(r, part) ==
    /\ DOMAIN r.result = {"error"}
    /\ \E i \in 1..Len(r.result.error) : r.result.error[i] = part

QueryReturned == kpi_query.done /\ "error" \notin DOMAIN kpi_query.result

\* C28 as claimed: a query that returns successfully returns at most limit
\* rows (none for a limit of 0 or less), count is the number of the rows, and
\* limit_reached is true exactly when the rows collected reached the limit.
C28_AtMostLimitRows ==
    QueryReturned =>
        LET res == kpi_query.result
            limit == kpi_query.call.limit
        IN  /\ Len(res.rows) <= (IF limit < 0 THEN 0 ELSE limit)
            /\ res.count = Len(res.rows)
            /\ res.limit_reached <=> (res.rows # <<>> /\ Len(res.rows) >= limit)

\* The first n elements of s, none for n <= 0.
Take(s, n) ==
    IF n <= 0 THEN <<>> ELSE IF n >= Len(s) THEN s ELSE SubSeq(s, 1, n)

\* All the rows of the directory, file after file in the order of the months.
RECURSIVE RowsInMonthOrder(_, _)
RowsInMonthOrder(files, months) ==
    IF months = {} THEN <<>>
    ELSE LET first == CHOOSE a \in months :
                          \A b \in months :
                              a[1] < b[1] \/ (a[1] = b[1] /\ a[2] <= b[2])
         IN  files[first] \o RowsInMonthOrder(files, months \ {first})

\* The row is one the call asks for: its date is a day from start_date to
\* end_date, its KPI name is the requested one up to the normal form when a
\* name is given, its client_id is the requested one when one is given.
RowWanted(row, q) ==
    LET day == parse_date(row.date)
    IN  /\ day # <<>>
        /\ ~DateLess(day, parse_date(q.start_date))
        /\ ~DateLess(parse_date(q.end_date), day)
        /\ (q.kpi_name # <<>> /\ q.kpi_name[1] # <<>>)
              => normalize_kpi_name(<<row.kpi_name>>)
                    = normalize_kpi_name(q.kpi_name)
        /\ q.client_id # <<>> => Strip(row.client_id) = q.client_id[1]

\* C29 as claimed: for valid dates with start_date <= end_date, the rows
\* returned are the first limit rows, in month order and then file order, of
\* the rows the call asks for.
C29_FirstLimitWantedRows ==
    LET q == kpi_query.call
        Wanted(row) == RowWanted(row, q)
    IN  (/\ kpi_query.done
         /\ q.dir.exists
         /\ parse_date(q.start_date) # <<>>
         /\ parse_date(q.end_date) # <<>>
         /\ ~DateLess(parse_date(q.end_date), parse_date(q.start_date)))
            => /\ "error" \notin DOMAIN kpi_query.result
               /\ kpi_query.result.rows
                     = Take(SelectSeq(RowsInMonthOrder(q.dir.files,
                                                       DOMAIN q.dir.files),
                                      Wanted),
                            q.limit)

\* ---------------------------------------------------------- claims C31..C36

\* A date text in the form YYYY-MM-DD: four digits, two digits and two
\* digits, with "-" between them.
InFormat(d) ==
    /\ Len(d) = 10
    /\ d[5] = "-" /\ d[8] = "-"
    /\ \A i \in (1..10) \ {5, 8} : d[i] \in Digits

\* The query's end_date is a date before its start_date.
EndBeforeStart(q) ==
    LET Day(d) == 10000 * d[1] + 100 * d[2] + d[3]
    IN  /\ parse_date(q.start_date) # <<>>
        /\ parse_date(q.end_date) # <<>>
        /\ Day(parse_date(q.end_date)) < Day(parse_date(q.start_date))

\* The query returned an error value: an 'error' entry, no rows, and no
\* monthly file was opened.
ErrorValue ==
    /\ "error" \in DOMAIN kpi_query.result
    /\ kpi_query.result.rows = <<>>
    /\ kpi_query.read = {}

\* C31 as claimed: when the data directory is missing, when either date is
\* not in the form YYYY-MM-DD, or when end_date is before start_date,
\* query_kpi_data returns an error value with no rows and reads no CSV file.
C31_InvalidInputIsError ==
    LET q == kpi_query.call
    IN  (/\ kpi_query.done
         /\ \/ ~q.dir.exists
            \/ ~InFormat(q.start_date)
            \/ ~InFormat(q.end_date)
            \/ EndBeforeStart(q))
            => ErrorValue

\* C32: whenever invoke has returned, the final loop state has messages, the
\* last of them is an assistant message without tool calls, the returned
\* answer is its content, and the answer is not the fallback string.
C32_AnswerIsLastAssistantMessage ==
    \A t \in Turns :
        pc[t] = "returned" =>
            LET final_messages == state[t].messages
            IN  /\ final_messages # <<>>
                /\ Last(final_messages).type = "ai"
                /\ ~HasToolCalls(Last(final_messages))
                /\ answer[t] = Last(final_messages).content
                /\ answer[t] # Fallback

\* invoke has returned from a loop that ran a Tool-Execution step before the
\* Decision Step that ended it.
C32_Witness ==
    \E t \in Turns :
        /\ pc[t] = "returned"
        /\ tool_steps[t] >= 1
        /\ answer[t] = Last(state[t].messages).content

\* C33: in every reachable state the active id stored for a session is the
\* client_id of a client in the clients collection, and no step removes a
\* client.
C33_StoredIdIsRegistered ==
    /\ \A key \in DOMAIN sessions : sessions[key] \in clients
    /\ SeedClients \subseteq clients

\* A session holds the id of a client that POST /agent/clients created, and a
\* turn that resolved an unknown id has passed its write step without a
\* record.
C33_Witness ==
    /\ \E key \in DOMAIN sessions : sessions[key] \notin SeedClients
    /\ \E t \in Turns :
          /\ pc[t] = "returned"
          /\ resolved[t].id # <<>>
          /\ ~persist_ok[t]
          /\ session_key[t] \notin DOMAIN sessions

\* The request of the turn has no session_id, or an empty one.
NoSessionId(t) ==
    Resolved(t) /\ (req[t].session_id = <<>> \/ req[t].session_id[1] = "")

\* t2 is the next invocation without session_id after t1, which is over.
NextWithoutSessionId(t1, t2) ==
    /\ t1 < t2
    /\ NoSessionId(t1) /\ NoSessionId(t2)
    /\ Over(t1)
    /\ \A u \in Turns : (t1 < u /\ u < t2) => ~NoSessionId(u)

\* Every invocation without session_id works on the one key
\* "default_session": its messages are filed in that session's log, the id
\* it stores is that session's active id, its loop runs on that session's
\* checkpoint, and the next such invocation reads the stored id and the
\* checkpointed messages the one before left.
SharesDefaultSession ==
    /\ \A t \in Turns :
          NoSessionId(t) =>
             /\ session_key[t] = "default_session"
             /\ PastAddHuman(t) =>
                   \E i \in LogEntries("default_session", "human") :
                       message_log[i].content = req[t].query
             /\ pc[t] = "returned" =>
                   \E i \in LogEntries("default_session", "ai") :
                       message_log[i].content = answer[t]
             /\ persist_ok[t] => "default_session" \in DOMAIN sessions
             /\ Started(t) => "default_session" \in DOMAIN checkpoints
    /\ \A t1, t2 \in Turns :
          NextWithoutSessionId(t1, t2) =>
             /\ persist_ok[t1] => stored_seen[t2] = resolved[t1].id
             /\ (Started(t1) /\ Started(t2)) =>
                   /\ IsPrefix(FirstDecisionMessages(t1), FirstDecisionMessages(t2))
                   /\ Len(FirstDecisionMessages(t1)) < Len(FirstDecisionMessages(t2))

C35_LoopKeepsClientIdAndAppends ==
    [][\A t \in Turns :
          Started(t) =>
              /\ state'[t].client_id = state[t].client_id
              /\ IsPrefix(state[t].messages, state'[t].messages)
              /\ decisions'[t] # decisions[t]
                    => /\ sent'[t] = BackendRequest(state[t])
                       /\ Len(state'[t].messages) = Len(state[t].messages) + 1]_vars

\* The second Decision Step of a turn has run after a Tool-Execution step,
\* with the active id the loop was started with, and the loop has added
\* messages to the ones it was started with.
C35_Witness ==
    \E t \in Turns :
        /\ pc[t] = "graph"
        /\ decisions[t] = 2
        /\ tool_steps[t] = 1
        /\ state[t].client_id = T_client1
        /\ sent[t][2] = SystemMessage(ActiveNote(T_client1))
        /\ FirstDecisionMessages(t) = messages[t]
        /\ Len(LoopMessages(t)) >= 3

\* The records of db.clients with the client_id.
RecordsOf(id) ==
    {i \in 1..Len(client_calls.docs) : client_calls.docs[i] = id}

\* C36 as claimed: db.clients never holds two records with the same
\* client_id, under every interleaving of the calls of create_client; and
\* every call of create_client returns: False, the endpoint answering 400,
\* without a record of its own when its payload has no client_id or the
\* client exists, True with exactly one record of the client there otherwise.
C36_CreateClientNoDuplicates ==
    /\ \A i, j \in 1..Len(client_calls.docs) :
          i # j => client_calls.docs[i] # client_calls.docs[j]
    /\ \A c \in Creators :
          LET call == client_calls.calls[c]
          IN  /\ call.pc # "raised"
              /\ (call.pc = "returned" /\ ~call.result)
                    => /\ call.status = 400
                       /\ \/ call.payload = <<>>
                          \/ call.payload[1] = <<>>
                          \/ Cardinality(RecordsOf(call.payload[1])) = 1
              /\ (call.pc = "returned" /\ call.result)
                    => /\ call.status = 200
                       /\ Cardinality(RecordsOf(call.payload[1])) = 1

====
